---- MODULE Spec2Model ----
(***************************************************************************)
(* A model of the resilient proxy / cache handlers of monitor-the-situation *)
(*   - api/cam-snapshot.js : SSRF guard, redirect following, image pipeline *)
(*   - api/mdt.js          : Montana RWIS manifest handler (tiered cache)   *)
(*   - api/udot.js, api/proxy/[...path].js : UDOT pass-through proxies      *)
(*   - cli/mts-cli.js      : serveMdtImage, the image redirect endpoint     *)
(*   - api/camnames.js     : the camera-name fan-out aggregator             *)
(* Strings that the code inspects character by character (hostnames, the   *)
(* first bytes of a body) are sequences of one-character strings.          *)
(* Date.now() is the variable now, counted in minutes (in seconds for the   *)
(* image redirect endpoint, whose TTL is 30 seconds).                      *)
(***************************************************************************)
EXTENDS Integers, Sequences, FiniteSets, TLC

VARIABLES
  now,            \* Date.now(), in minutes
  gRaw, gRes,     \* isSafeUrl: the argument, and the value returned (absent before the call)
  cache, mreq,                                    \* api/mdt.js
  ureq,                                           \* api/udot.js and api/proxy/[...path].js
  imageCache, lastGoodCache, mdtUrlCache, sreq,   \* api/cam-snapshot.js
  imgUrlCache, ireq,                              \* cli/mts-cli.js, serveMdtImage
  nameCache, creq,                                \* api/camnames.js
  snowCache, stationCache, wreq,                  \* api/snow.js
  load,                                           \* the Montana client, loadCameras
  mv,                                             \* the Utah client, map moves
  cliCache, kreq                                  \* cli/mts-cli.js, serveMdtCameras

vars == <<now, gRaw, gRes, cache, mreq, ureq,
          imageCache, lastGoodCache, mdtUrlCache, sreq,
          imgUrlCache, ireq, nameCache, creq,
          snowCache, stationCache, wreq, load, mv, cliCache, kreq>>

\* An optional value (a missing cache entry, an undefined variable) is the
\* empty sequence; a present one is the sequence of that one value.
Absent  == <<>>
Some(x) == <<x>>

\* The module state of cli/mts-cli.js (_imgUrlCache) and of api/camnames.js
\* (_cache = null, _cacheAt = 0) when the process starts, with no request
ImgVars   == <<imgUrlCache, ireq>>
ImgIdle   == imgUrlCache = Absent /\ ireq = Absent
NamesVars == <<nameCache, creq>>
NamesIdle == nameCache = [map |-> Absent, at |-> 0] /\ creq = Absent

\* Resorts the snow endpoint queries: two of the nine RESORT_QUERIES
Resorts == <<"snowbowl", "discovery">>

\* The snow endpoint's callers (two requests can be in flight at once)
SnowReqs == {"w1", "w2"}

\* The module state of api/snow.js when the instance starts
\* (snowCache = { data: null, ts: 0 }, stationCache = {}), with no request
SnowVars == <<snowCache, stationCache, wreq>>
SnowIdle ==
  /\ snowCache = [data |-> Absent, ts |-> 0]
  /\ stationCache = [i \in DOMAIN Resorts |-> Absent]
  /\ wreq = [w \in SnowReqs |-> Absent]

\* The Montana client before init() calls loadCameras: the loading screen
\* is up, state.cameras is empty, no fetch has been issued
LoadVars == <<load>>
LoadIdle ==
  load = [pc |-> "init", attempt |-> 0, fetches |-> 0, wait |-> 0, status |-> "",
          pct |-> 0, cameras |-> <<>>, err |-> Absent, log |-> <<>>, loading |-> "shown"]

\* The Utah client after initMap: programmaticMove was set on line 68,
\* useDefault is true, no camera is loaded, no map event is pending
MoveVars == <<mv>>
MoveIdle ==
  mv = [programmaticMove |-> TRUE, useDefault |-> TRUE, cameras |-> FALSE,
        events |-> <<>>, handled |-> Absent]

\* The callers of the CLI's local /api/mdt
CliReqs == {"k1", "k2"}

\* cli/mts-cli.js when serve starts (_mdtCamerasCache = null,
\* _mdtCamerasFetched = 0), with no request
CliVars == <<cliCache, kreq>>
CliIdle ==
  /\ cliCache = [json |-> Absent, fetched |-> 0]
  /\ kreq = [k \in CliReqs |-> Absent]

ClientVars == <<load, mv, cliCache, kreq>>
ClientIdle == LoadIdle /\ MoveIdle /\ CliIdle

(***************************************************************************)
(* Characters and strings                                                  *)
(***************************************************************************)
DigitChars == <<"0", "1", "2", "3", "4", "5", "6", "7", "8", "9">>

IsDigit(c) == \E i \in 1..10 : DigitChars[i] = c

\* String(n) of a number 0..255, as a sequence of characters
Dec(n) ==
  IF n < 10 THEN <<DigitChars[n + 1]>>
  ELSE IF n < 100 THEN <<DigitChars[(n \div 10) + 1], DigitChars[(n % 10) + 1]>>
  ELSE <<DigitChars[(n \div 100) + 1], DigitChars[((n \div 10) % 10) + 1], DigitChars[(n % 10) + 1]>>

StartsWith(s, p) == Len(s) >= Len(p) /\ SubSeq(s, 1, Len(p)) = p

(***************************************************************************)
(* URLs.  A raw URL is [scheme, host, path]; scheme "" is a string that    *)
(* new URL() cannot parse.  A host literal is an IPv4 address (its four    *)
(* octets), a domain name (its characters) or an IPv6 address (the text    *)
(* between the brackets).                                                  *)
(***************************************************************************)
IPv4(a, b, c, d) == [kind |-> "ipv4", o |-> <<a, b, c, d>>, s |-> <<>>]
Name(s) == [kind |-> "name", o |-> <<>>, s |-> s]
IPv6(s) == [kind |-> "ipv6", o |-> <<>>, s |-> s]

Localhost  == <<"l", "o", "c", "a", "l", "h", "o", "s", "t">>
PublicHost == <<"p", "u", "b", "l", "i", "c", "-", "h", "o", "s", "t", ".", "e", "x", "a", "m", "p", "l", "e">>
TenDomain  == <<"1", "0", ".", "e", "x", "a", "m", "p", "l", "e">>
LoopbackV6 == <<":", ":", "1">>
GlobalV6   == <<"2", "0", "0", "1", ":", "d", "b", "8", ":", ":", "1">>

\* URL.hostname: the serialized host; an IPv6 address is serialized inside brackets
UrlHostname(h) ==
  CASE h.kind = "ipv4" -> Dec(h.o[1]) \o <<".">> \o Dec(h.o[2]) \o <<".">> \o Dec(h.o[3]) \o <<".">> \o Dec(h.o[4])
    [] h.kind = "ipv6" -> <<"[">> \o h.s \o <<"]">>
    [] OTHER           -> h.s

\* URL.protocol
UrlProtocol(u) == u.scheme \o ":"

\* new URL(raw) throws
UrlThrows(u) == u.scheme = ""

(***************************************************************************)
(* SSRF guard                                                              *)
(***************************************************************************)
\* 172\.(1[6-9]|2\d|3[01])\.
Blocked172(h) ==
  /\ StartsWith(h, <<"1", "7", "2", ".">>)
  /\ Len(h) >= 7
  /\ \/ h[5] = "1" /\ h[6] \in {"6", "7", "8", "9"}
     \/ h[5] = "2" /\ IsDigit(h[6])
     \/ h[5] = "3" /\ h[6] \in {"0", "1"}
  /\ h[7] = "."

\* BLOCKED.test(hostname)
BLOCKED(h) ==
  \/ StartsWith(h, Localhost)
  \/ StartsWith(h, <<"1", "2", "7", ".">>)
  \/ StartsWith(h, <<"1", "0", ".">>)
  \/ StartsWith(h, <<"1", "9", "2", ".", "1", "6", "8", ".">>)
  \/ Blocked172(h)
  \/ StartsWith(h, <<"0", ".", "0", ".", "0", ".", "0">>)
  \/ StartsWith(h, LoopbackV6)
  \/ StartsWith(h, <<"1", "6", "9", ".", "2", "5", "4", ".">>)

isSafeUrl(raw) ==
  IF UrlThrows(raw) THEN FALSE
  ELSE UrlProtocol(raw) = "https:" /\ ~BLOCKED(UrlHostname(raw.host))

\* What the guard is for: the host literal denotes loopback, an RFC1918
\* private address, a link-local address or the unspecified address.
DenotesInternal(h) ==
  CASE h.kind = "ipv4" ->
         \/ h.o[1] = 127
         \/ h.o[1] = 10
         \/ h.o[1] = 172 /\ h.o[2] \in 16..31
         \/ h.o[1] = 192 /\ h.o[2] = 168
         \/ h.o[1] = 169 /\ h.o[2] = 254
         \/ h.o = <<0, 0, 0, 0>>
    [] h.kind = "ipv6" -> h.s = LoopbackV6
    [] OTHER           -> h.s = Localhost

\* The arguments the guard is tried on
GuardOctet1 == {0, 8, 10, 11, 100, 127, 169, 172, 192}
GuardOctet2 == {0, 1, 15, 16, 20, 31, 32, 168, 254}
GuardHosts ==
  {IPv4(a, b, 0, d) : a \in GuardOctet1, b \in GuardOctet2, d \in {0, 1}}
    \cup {IPv4(10, 1, 2, 3), IPv4(192, 168, 1, 5)}
    \cup {Name(Localhost), Name(PublicHost), Name(TenDomain), IPv6(LoopbackV6), IPv6(GlobalV6)}
GuardUrls == [scheme : {"https", "http", "ftp", ""}, host : GuardHosts, path : {"/x"}]

\* isSafeUrl is called
GuardCall ==
  /\ gRes = Absent
  /\ gRes' = Some(isSafeUrl(gRaw[1]))
  /\ UNCHANGED gRaw

(***************************************************************************)
(* api/cam-snapshot.js : caches, resolver, image fetch                     *)
(***************************************************************************)
SNAPSHOT_CACHE_TTL == 720
MDT_URL_TTL        == 1
MAX_REDIRECTS      == 5

\* The instants (minutes) at which the snapshot handler's clock is read
SnapTimes == {0, 1, 720, 721}

Url(scheme, host, path) == [scheme |-> scheme, host |-> host, path |-> path]

UrlCam     == Url("https", Name(PublicHost), "/cam.jpg")
UrlShare   == Url("https", Name(PublicHost), "/share.jpg")
UrlLan     == Url("http", IPv4(192, 168, 1, 5), "/cam.jpg")
UrlTen     == Url("https", IPv4(10, 1, 2, 3), "/x")
UrlInvalid == Url("", Name(<<>>), "")

\* req.query.id and req.query.url as given (an absent parameter is <<>>)
SnapIds       == {<<>>, <<"7">>, <<"7", "x">>}
SnapUrlParams == {Absent, Some(UrlCam), Some(UrlLan), Some(UrlTen), Some(UrlInvalid)}

\* /^\d+$/.test(id)
NumericId(id) == id # <<>> /\ \A i \in 1..Len(id) : IsDigit(id[i])

\* `mdt:${id}` and `url:${url}`
MdtKey(id) == [kind |-> "mdt", id |-> id, url |-> UrlInvalid]
UrlKey(u)  == [kind |-> "url", id |-> <<>>, url |-> u]
SnapKeys   == {MdtKey(<<"7">>), UrlKey(UrlCam)}

NoImages == [k \in SnapKeys |-> Absent]
NoUrls   == [id \in {<<"7">>} |-> Absent]

PLACEHOLDER_PNG == "placeholder-png"

\* What a 200 carries: the body, and the content-type header ("" when absent)
Image(buf, ct) == [buf |-> buf, contentType |-> ct]
Images == {Image("jpegA", "image/png"), Image("jpegB", ""), Image("", "image/jpeg")}

\* A Location header: an absolute URL, or a path relative to the current URL
AbsLoc(u) == [abs |-> TRUE, url |-> u, path |-> ""]
RelLoc(p) == [abs |-> FALSE, url |-> UrlInvalid, path |-> p]
Locations == {Absent, Some(AbsLoc(UrlLan)), Some(AbsLoc(UrlInvalid)), Some(RelLoc("/moved.jpg"))}

\* What an image request settles with
FetchOutcome(kind, status, loc, image) == [kind |-> kind, status |-> status, loc |-> loc, image |-> image]
NoImage == Image("", "")
FetchOutcomes ==
  {FetchOutcome("error", 0, Absent, NoImage), FetchOutcome("timeout", 0, Absent, NoImage)}
    \cup {FetchOutcome("response", st, loc, NoImage) : st \in {301, 302, 307, 308}, loc \in Locations}
    \cup {FetchOutcome("response", st, Absent, NoImage) : st \in {404, 500}}
    \cup {FetchOutcome("response", 200, Absent, im) : im \in Images}

\* What the metadata call settles with: an error, a timeout, or a body that
\* is not JSON, has no images, has no publicSharePath, or has one
MetaOutcome(kind, url) == [kind |-> kind, url |-> url]
MetaOutcomes ==
  {MetaOutcome(k, UrlInvalid) : k \in {"error", "timeout", "notjson", "noimages", "nopath"}}
    \cup {MetaOutcome("url", u) : u \in {UrlShare, UrlLan}}

\* loc.startsWith('http') ? loc : new URL(loc, url).href
NextUrl(loc, url) == IF loc.abs THEN loc.url ELSE Url(url.scheme, url.host, loc.path)

TooManyRedirectsOffByOne(redirectsLeft) == redirectsLeft < 0

\* if (redirectsLeft <= 0) return reject(new Error('Too many redirects'))
TooManyRedirects(redirectsLeft) == redirectsLeft <= 0

SnapResponse(status, tag, ct, cc, body) ==
  [status |-> status, xsnapshot |-> tag, contentType |-> ct, cacheControl |-> cc, body |-> body]

\* The names of the headers of a response: the two set on lines 165-166
\* for every request, and those given to res.writeHead
SnapHeaders(resp) ==
  {"Access-Control-Allow-Origin", "Access-Control-Allow-Methods"}
    \cup (IF resp.contentType # "" THEN {"Content-Type"} ELSE {})
    \cup (IF resp.cacheControl # "" THEN {"Cache-Control"} ELSE {})
    \cup (IF resp.xsnapshot # "" THEN {"X-Snapshot"} ELSE {})

\* A request: where it is, its parameters and key, the image request in
\* flight (its URL and redirectsLeft), the number of metadata and image
\* requests issued so far, the kind of answer the last image request got
\* ("error", "timeout", "redirect", "status" or "ok"), the error the catch
\* block logged, and the response written.
SnapNew(method, id, url) ==
  [pc |-> "start", method |-> method, id |-> id, url |-> url,
   key |-> IF id # <<>> THEN MdtKey(id) ELSE IF url # Absent THEN UrlKey(url[1]) ELSE UrlKey(UrlInvalid),
   fetchUrl |-> Absent, redirectsLeft |-> 0, resolves |-> 0, issued |-> 0,
   last |-> "", err |-> "", resp |-> Absent]

SnapEnd(q, resp) ==
  [q EXCEPT !.pc = "done", !.fetchUrl = Absent, !.redirectsLeft = 0, !.resp = Some(resp)]

OutcomeKind(o) ==
  IF o.kind # "response" THEN o.kind
  ELSE IF o.status \in {301, 302, 307, 308} THEN "redirect"
  ELSE IF o.status = 200 THEN "ok" ELSE "status"

\* { buf, contentType, fetchedAt: Date.now() } and { buf, contentType }
ImageEntryAtEpoch(buf, contentType, t) == [buf |-> buf, contentType |-> contentType, fetchedAt |-> 0]

ImageEntry(buf, contentType, t) == [buf |-> buf, contentType |-> contentType, fetchedAt |-> t]
LastGoodEntryDefaultType(buf, contentType) == [buf |-> buf, contentType |-> "image/jpeg"]

LastGoodEntry(buf, contentType) == [buf |-> buf, contentType |-> contentType]

SnapFallbackPlaceholderOnly(q, msg) ==
  SnapEnd([q EXCEPT !.err = msg],
          SnapResponse(200, "PLACEHOLDER", "image/png", "no-store", PLACEHOLDER_PNG))

SnapFallbackExpiring(q, msg) ==
  LET lastGood == IF imageCache[q.key] # Absent /\ now - imageCache[q.key][1].fetchedAt < SNAPSHOT_CACHE_TTL
                  THEN lastGoodCache[q.key] ELSE Absent IN
  SnapEnd([q EXCEPT !.err = msg],
          IF lastGood # Absent
          THEN SnapResponse(200, "STALE", lastGood[1].contentType,
                            "public, max-age=43200, stale-while-revalidate=86400", lastGood[1].buf)
          ELSE SnapResponse(200, "PLACEHOLDER", "image/png", "no-store", PLACEHOLDER_PNG))

\* the catch block of the handler (lines 210-231)
SnapFallback(q, msg) ==
  LET lastGood == lastGoodCache[q.key] IN
  SnapEnd([q EXCEPT !.err = msg],
          IF lastGood # Absent
          THEN SnapResponse(200, "STALE", lastGood[1].contentType,
                            "public, max-age=43200, stale-while-revalidate=86400", lastGood[1].buf)
          ELSE SnapResponse(200, "PLACEHOLDER", "image/png", "no-store", PLACEHOLDER_PNG))

\* fetchImageBuffer(url, redirectsLeft) up to req.end(): the URL is parsed
\* and the request is issued
SnapBeginFetch(q, u, redirectsLeft) ==
  IF UrlThrows(u) THEN SnapFallback(q, "Invalid URL")
  ELSE [q EXCEPT !.pc = "fetching", !.fetchUrl = Some(u), !.redirectsLeft = redirectsLeft,
                 !.issued = @ + 1]

SnapUrlRejectedOnlyWithoutId(id, url) == id = <<>> /\ url # Absent /\ ~isSafeUrl(url[1])

\* url && !isSafeUrl(url)
SnapUrlRejected(id, url) == url # Absent /\ ~isSafeUrl(url[1])

SnapIsFreshShortTtl(cached, t) == cached # Absent /\ t - cached[1].fetchedAt < MDT_URL_TTL

\* cached && Date.now() - cached.fetchedAt < CACHE_TTL
SnapIsFresh(cached, t) == cached # Absent /\ t - cached[1].fetchedAt < SNAPSHOT_CACHE_TTL

MdtUrlIsFreshInclusive(cached, t) == cached # Absent /\ t - cached[1].at <= MDT_URL_TTL

\* cached && Date.now() - cached.at < MDT_URL_TTL
MdtUrlIsFresh(cached, t) == cached # Absent /\ t - cached[1].at < MDT_URL_TTL

\* lines 164-198: the handler up to its first outbound request
SnapArrive(method, id, url) ==
  /\ sreq = Absent
  /\ LET q == SnapNew(method, id, url) IN
     sreq' = Some(
       IF method = "OPTIONS" THEN SnapEnd(q, SnapResponse(204, "", "", "", ""))
       ELSE IF id = <<>> /\ url = Absent
         THEN SnapEnd(q, SnapResponse(400, "", "", "", "Missing id or url parameter"))
       ELSE IF id # <<>> /\ ~NumericId(id)
         THEN SnapEnd(q, SnapResponse(400, "", "", "", "Invalid id"))
       ELSE IF SnapUrlRejected(id, url)
         THEN SnapEnd(q, SnapResponse(400, "", "", "", "Invalid or disallowed URL"))
       ELSE IF SnapIsFresh(imageCache[q.key], now)
         THEN SnapEnd(q, SnapResponse(200, "HIT", imageCache[q.key][1].contentType,
                         "public, max-age=43200, stale-while-revalidate=86400",
                         imageCache[q.key][1].buf))
       ELSE IF id # <<>>
         THEN IF MdtUrlIsFresh(mdtUrlCache[id], now)
              THEN SnapBeginFetch(q, mdtUrlCache[id][1].url, MAX_REDIRECTS)
              ELSE [q EXCEPT !.pc = "resolving", !.resolves = @ + 1]
       ELSE SnapBeginFetch(q, url[1], MAX_REDIRECTS))
  /\ UNCHANGED <<now, imageCache, lastGoodCache, mdtUrlCache>>

\* resolveMdtUrl, lines 96-112: the metadata call settles
SnapResolved(m) ==
  /\ sreq # Absent /\ sreq[1].pc = "resolving"
  /\ LET q == sreq[1] IN
     IF m.kind = "url"
     THEN /\ mdtUrlCache' = [mdtUrlCache EXCEPT ![q.id] = Some([url |-> m.url, at |-> now])]
          /\ sreq' = Some(SnapBeginFetch(q, m.url, MAX_REDIRECTS))
     ELSE /\ mdtUrlCache' = mdtUrlCache
          /\ sreq' = Some(SnapFallback(q,
               CASE m.kind = "error"    -> "ECONNRESET"
                 [] m.kind = "timeout"  -> "MDT resolve timeout"
                 [] m.kind = "notjson"  -> "Unexpected token"
                 [] m.kind = "noimages" -> "No images in MDT response"
                 [] OTHER               -> "No publicSharePath in MDT response"))
  /\ UNCHANGED <<now, imageCache, lastGoodCache>>

\* fetchImageBuffer, lines 131-149, and the handler's lines 200-208: the
\* image request in flight settles
SnapSettle(o) ==
  /\ sreq # Absent /\ sreq[1].pc = "fetching"
  /\ LET q == [sreq[1] EXCEPT !.last = OutcomeKind(o)] IN
     IF o.kind = "response" /\ o.status = 200
     THEN LET contentType == IF o.image.contentType # "" THEN o.image.contentType ELSE "image/jpeg" IN
          /\ imageCache' = [imageCache EXCEPT ![q.key] =
                 Some(ImageEntry(o.image.buf, contentType, now))]
          /\ lastGoodCache' = [lastGoodCache EXCEPT ![q.key] =
                 Some(LastGoodEntry(o.image.buf, contentType))]
          /\ sreq' = Some(SnapEnd(q, SnapResponse(200, "MISS", contentType,
                        "public, max-age=43200, stale-while-revalidate=86400", o.image.buf)))
     ELSE /\ UNCHANGED <<imageCache, lastGoodCache>>
          /\ sreq' = Some(
               IF o.kind = "error" THEN SnapFallback(q, "ECONNRESET")
               ELSE IF o.kind = "timeout" THEN SnapFallback(q, "Image fetch timeout")
               ELSE IF o.status \in {301, 302, 307, 308}
                 THEN IF TooManyRedirects(q.redirectsLeft) THEN SnapFallback(q, "Too many redirects")
                      ELSE IF o.loc = Absent THEN SnapFallback(q, "Redirect with no Location header")
                      ELSE SnapBeginFetch(q, NextUrl(o.loc[1], q.fetchUrl[1]), q.redirectsLeft - 1)
               ELSE SnapFallback(q, "HTTP status"))
  /\ UNCHANGED <<now, mdtUrlCache>>

\* res.end(): the response has been delivered
SnapClose ==
  /\ sreq # Absent /\ sreq[1].pc = "done"
  /\ sreq' = Absent
  /\ UNCHANGED <<now, imageCache, lastGoodCache, mdtUrlCache>>

\* time passes
SnapTick ==
  /\ ~(sreq # Absent /\ sreq[1].pc = "done")
  /\ \E t \in SnapTimes : t > now /\ now' = t
  /\ UNCHANGED <<sreq, imageCache, lastGoodCache, mdtUrlCache>>

(***************************************************************************)
(* api/mdt.js : the Montana RWIS manifest handler                          *)
(* Latitudes and longitudes are in tenths of a degree.  A body is the      *)
(* sequence of its <marker .../> elements (an HTML page has none).         *)
(* JSON.stringify(v) is Json(v).                                           *)
(***************************************************************************)
MT_BOUNDS == [north |-> 491, south |-> 442, west |-> -1162, east |-> -1039]

CACHE_TTL   == 10
CACHE_STALE == 60

\* Bounds of the manifest specification: the clock stops at MaxTime and
\* advances TickStep minutes at a time.
MaxTime  == 70
TickStep == 5

MdtReqs == {"r1", "r2"}

\* parseFloat(text): a number (tenths of a degree) or NaN
Num(v) == [nan |-> FALSE, v |-> v]
NaN    == [nan |-> TRUE, v |-> 0]
isNaN(x) == x.nan

Marker(id, lat, lng, label) == [id |-> id, lat |-> lat, lng |-> lng, label |-> label]

MarkerHelena   == Marker("101", Num(466), Num(-1120), "Helena")
MarkerNoLabel  == Marker("102", Num(458), Num(-1085), "")
MarkerUtah     == Marker("200", Num(407), Num(-1119), "Salt Lake")
MarkerEast     == Marker("201", Num(466), Num(-1000), "Fargo")
MarkerNoId     == Marker("", Num(466), Num(-1120), "Anonymous")
MarkerBadLat   == Marker("300", NaN, Num(-1120), "Broken")

HtmlPage == <<>>
XmlBodies == { HtmlPage,
               <<MarkerUtah, MarkerEast>>,
               <<MarkerNoId, MarkerBadLat>>,
               <<MarkerHelena>>,
               <<MarkerUtah, MarkerHelena, MarkerNoLabel>> }

\* JSON.stringify of the camera list, and of {error: msg}
JsonCameras(c) == [type |-> "array", items |-> c, error |-> ""]
JsonError(msg) == [type |-> "object", items |-> <<>>, error |-> msg]
NoBody         == [type |-> "empty", items |-> <<>>, error |-> ""]

\* the filter of parseMarkers: the markers that are pushed
KeepMarker(m) ==
  /\ ~(m.id = "" \/ isNaN(m.lat) \/ isNaN(m.lng))
  /\ ~(m.lat.v < MT_BOUNDS.south \/ m.lat.v > MT_BOUNDS.north)
  /\ ~(m.lng.v < MT_BOUNDS.west \/ m.lng.v > MT_BOUNDS.east)

Camera(m) ==
  [id |-> m.id, lat |-> m.lat.v, lng |-> m.lng.v,
   location |-> IF m.label # "" THEN m.label ELSE "CAM-" \o m.id]

RECURSIVE parseMarkers(_)
parseMarkers(xml) ==
  IF xml = <<>> THEN <<>>
  ELSE IF KeepMarker(Head(xml))
       THEN <<Camera(Head(xml))>> \o parseMarkers(Tail(xml))
       ELSE parseMarkers(Tail(xml))

\* What fetchXml settles with: a rejection, or {status, buf}
FetchXmlOutcomes ==
  {[kind |-> "error", status |-> 0, body |-> HtmlPage]}
    \cup {[kind |-> "response", status |-> 200, body |-> b] : b \in XmlBodies}
    \cup {[kind |-> "response", status |-> s, body |-> HtmlPage] : s \in {403, 500}}

MdtTryAcceptsEmpty(up) ==
  IF up.kind = "error" THEN [ok |-> FALSE, buf |-> NoBody, msg |-> "ECONNRESET"]
  ELSE IF up.status # 200 THEN [ok |-> FALSE, buf |-> NoBody, msg |-> "MDT XML returned HTTP status"]
  ELSE [ok |-> TRUE, buf |-> JsonCameras(parseMarkers(up.body)), msg |-> ""]

\* The try block of the handler: the JSON buffer, or the error thrown
MdtTry(up) ==
  IF up.kind = "error" THEN [ok |-> FALSE, buf |-> NoBody, msg |-> "ECONNRESET"]
  ELSE IF up.status # 200 THEN [ok |-> FALSE, buf |-> NoBody, msg |-> "MDT XML returned HTTP status"]
  ELSE LET cameras == parseMarkers(up.body) IN
       IF Len(cameras) = 0
       THEN [ok |-> FALSE, buf |-> NoBody, msg |-> "No Montana cameras parsed from XML"]
       ELSE [ok |-> TRUE, buf |-> JsonCameras(cameras), msg |-> ""]

MdtIsFreshInverted(hit, t) == hit # Absent /\ t - hit[1].at > CACHE_TTL

\* hit && Date.now() - hit.at < CACHE_TTL
MdtIsFresh(hit, t) == hit # Absent /\ t - hit[1].at < CACHE_TTL

MdtIsStaleShortTtl(hit, t)  == hit # Absent /\ t - hit[1].at < CACHE_TTL
MdtIsStaleInclusive(hit, t) == hit # Absent /\ t - hit[1].at <= CACHE_STALE

\* hit && Date.now() - hit.at < CACHE_STALE
MdtIsStale(hit, t) == hit # Absent /\ t - hit[1].at < CACHE_STALE

MdtResponse(status, tag, cc, body) ==
  [status |-> status, xcache |-> tag, cacheControl |-> cc, body |-> body]

MdtOptionsResponse    == MdtResponse(204, "", "", NoBody)
MdtHitResponse(hit)   == MdtResponse(200, "HIT", "public, s-maxage=300, stale-while-revalidate=600", hit[1].buf)
MdtMissResponse(buf)  == MdtResponse(200, "MISS", "public, s-maxage=300, stale-while-revalidate=600", buf)
MdtStaleResponse(hit) == MdtResponse(200, "STALE", "public, s-maxage=60", hit[1].buf)
MdtErrorResponse(msg) == MdtResponse(502, "", "", JsonError(msg))

\* A request: where it is in the handler, req.method, the local variable
\* hit, what fetchXml settled with, and the response written.
MdtRequest(pc, method, hit, up, resp) ==
  [pc |-> pc, method |-> method, hit |-> hit, up |-> up, resp |-> resp]
MdtIdle == MdtRequest("idle", "", Absent, Absent, Absent)

\* A response is observed in the state after the step that ends it; the
\* connection is then closed before anything else happens.
MdtQuiet == \A r \in MdtReqs : mreq[r].pc # "done"

\* lines 61-80: the handler up to its first await
MdtArrive(r, method) ==
  /\ MdtQuiet
  /\ mreq[r].pc = "idle"
  /\ mreq' = [mreq EXCEPT ![r] =
       IF method = "OPTIONS" THEN MdtRequest("done", method, Absent, Absent, Some(MdtOptionsResponse))
       ELSE IF MdtIsFresh(cache, now) THEN MdtRequest("done", method, cache, Absent, Some(MdtHitResponse(cache)))
       ELSE MdtRequest("fetching", method, cache, Absent, Absent)]
  /\ UNCHANGED <<now, cache>>

MdtCacheAfterUnvalidated(t, entry, at) == Some([buf |-> t.buf, at |-> at])

MdtCacheAfterErasing(t, entry, at) ==
  IF t.ok THEN Some([buf |-> t.buf, at |-> at]) ELSE Absent

\* cache['rwis'] after the try block: line 92 when it reached it, and the
\* entry left as it is when it threw
MdtCacheAfter(t, entry, at) ==
  IF t.ok THEN Some([buf |-> t.buf, at |-> at]) ELSE entry

\* lines 82-116: the handler from the moment fetchXml settles
MdtSettle(r, up) ==
  /\ MdtQuiet
  /\ mreq[r].pc = "fetching"
  /\ LET t   == MdtTry(up)
         hit == mreq[r].hit
         m   == mreq[r].method IN
     IF t.ok
     THEN /\ cache' = MdtCacheAfter(t, cache, now)
          /\ mreq' = [mreq EXCEPT ![r] = MdtRequest("done", m, hit, Some(up), Some(MdtMissResponse(t.buf)))]
     ELSE /\ cache' = MdtCacheAfter(t, cache, now)
          /\ mreq' = [mreq EXCEPT ![r] = MdtRequest("done", m, hit, Some(up),
                        Some(IF MdtIsStale(hit, now) THEN MdtStaleResponse(hit) ELSE MdtErrorResponse(t.msg)))]
  /\ UNCHANGED now

\* res.end(): the response has been delivered
MdtClose(r) ==
  /\ mreq[r].pc = "done"
  /\ mreq' = [mreq EXCEPT ![r] = MdtIdle]
  /\ UNCHANGED <<now, cache>>

\* time passes
MdtTick ==
  /\ MdtQuiet
  /\ now + TickStep <= MaxTime
  /\ now' = now + TickStep
  /\ UNCHANGED <<cache, mreq>>

MdtOther == <<gRaw, gRes, ureq, imageCache, lastGoodCache, mdtUrlCache, sreq, ImgVars, NamesVars, SnowVars, ClientVars>>

MdtInit ==
  /\ now = 0
  /\ cache = Absent
  /\ mreq = [r \in MdtReqs |-> MdtIdle]
  /\ gRaw = Absent /\ gRes = Absent
  /\ ureq = Absent
  /\ imageCache = NoImages /\ lastGoodCache = NoImages /\ mdtUrlCache = NoUrls
  /\ sreq = Absent
  /\ ImgIdle /\ NamesIdle /\ SnowIdle /\ ClientIdle

MdtNext ==
  \/ \E r \in MdtReqs, method \in {"GET", "OPTIONS"} : MdtArrive(r, method) /\ UNCHANGED MdtOther
  \/ \E r \in MdtReqs, up \in FetchXmlOutcomes : MdtSettle(r, up) /\ UNCHANGED MdtOther
  \/ \E r \in MdtReqs : MdtClose(r) /\ UNCHANGED MdtOther
  \/ MdtTick /\ UNCHANGED MdtOther

SpecMdt == MdtInit /\ [][MdtNext]_vars

\* The manifest handler with the steps the process itself schedules taken
\* eventually: a finished response is delivered.  The settling of fetchXml
\* is driven by the upstream alone (an answer, or a socket error): fetchXml
\* arms no timer (lines 20-35 have no setTimeout), so nothing forces it.
SpecMdtLive ==
  MdtInit /\ [][MdtNext]_vars /\ \A r \in MdtReqs : WF_vars(MdtClose(r) /\ UNCHANGED MdtOther)

(***************************************************************************)
(* Properties of the manifest handler                                      *)
(***************************************************************************)
MdtDone(r) == mreq[r].pc = "done" /\ mreq[r].method = "GET"

\* The fetch failed: a network error, a status other than 200, or a 200
\* body in which no marker is a usable Montana camera (an HTML page)
MdtFetchFailed(up) ==
  \/ up.kind = "error"
  \/ up.status # 200
  \/ \A i \in 1..Len(up.body) : ~KeepMarker(up.body[i])

\* C1: a GET that arrives while the cache entry is younger than CACHE_TTL
\* is answered in the same step with 200, X-Cache: HIT and the bytes of
\* the entry, and no request enters a fetch (no upstream call is issued).
C1_FreshHitNoUpstream ==
  [][\A r \in MdtReqs :
       ( /\ mreq[r].pc = "idle" /\ mreq'[r].pc # "idle" /\ mreq'[r].method = "GET"
         /\ cache # Absent /\ now - cache[1].at < CACHE_TTL )
       => /\ mreq'[r].pc = "done"
          /\ mreq'[r].up = Absent
          /\ mreq'[r].resp # Absent
          /\ mreq'[r].resp[1].status = 200
          /\ mreq'[r].resp[1].xcache = "HIT"
          /\ mreq'[r].resp[1].body = cache[1].buf
          /\ \A q \in MdtReqs : mreq'[q].pc = "fetching" => mreq[q].pc = "fetching"
          /\ cache' = cache
    ]_vars

\* C1 witness: a HIT answered from an entry stored by an earlier fetch, while
\* no request is fetching
C1_Witness ==
  \E r \in MdtReqs :
    /\ MdtDone(r) /\ mreq[r].resp[1].xcache = "HIT"
    /\ mreq[r].resp[1].body = cache[1].buf
    /\ now > cache[1].at
    /\ \A q \in MdtReqs : mreq[q].pc # "fetching"

\* C2: when the fetch has failed and the entry the request found in the
\* cache is younger than CACHE_STALE, the response is 200, X-Cache: STALE,
\* with the bytes of that entry.
C2_StaleOnFailure ==
  \A r \in MdtReqs :
    ( /\ MdtDone(r) /\ mreq[r].up # Absent /\ MdtFetchFailed(mreq[r].up[1])
      /\ mreq[r].hit # Absent /\ now - mreq[r].hit[1].at < CACHE_STALE )
    => /\ mreq[r].resp[1].status = 200
       /\ mreq[r].resp[1].xcache = "STALE"
       /\ mreq[r].resp[1].body = mreq[r].hit[1].buf

\* C2 witness: the scenario of the specification, an HTML page with status
\* 200 and an entry aged 20 minutes
C2_Witness ==
  \E r \in MdtReqs :
    /\ MdtDone(r) /\ mreq[r].up = Some([kind |-> "response", status |-> 200, body |-> HtmlPage])
    /\ mreq[r].hit # Absent /\ now - mreq[r].hit[1].at = 20
    /\ mreq[r].resp[1].xcache = "STALE"

\* C3: a response served from the cache (HIT or STALE) carries an entry
\* younger than CACHE_STALE; any other 200 carries the result of a fetch
\* made for this request; and a request whose entry is absent or expired
\* is answered only after a fetch, with an error status and a body without
\* cameras when that fetch failed.
C3_ExpiredNeverServed ==
  \A r \in MdtReqs : MdtDone(r) =>
    LET q == mreq[r]  resp == mreq[r].resp[1] IN
    /\ resp.xcache \in {"HIT", "STALE"} =>
         q.hit # Absent /\ resp.body = q.hit[1].buf /\ now - q.hit[1].at < CACHE_STALE
    /\ (resp.status = 200 /\ resp.xcache \notin {"HIT", "STALE"}) =>
         /\ q.up # Absent /\ ~MdtFetchFailed(q.up[1])
         /\ resp.body = JsonCameras(parseMarkers(q.up[1].body))
    /\ (q.hit = Absent \/ now - q.hit[1].at >= CACHE_STALE) =>
         /\ q.up # Absent
         /\ MdtFetchFailed(q.up[1]) =>
              resp.status >= 400 /\ resp.body.type = "object" /\ resp.body.items = <<>>

\* C3 witness: an entry of exactly CACHE_STALE minutes, a failed fetch, 502
C3_Witness ==
  \E r \in MdtReqs :
    /\ MdtDone(r) /\ mreq[r].hit # Absent /\ now - mreq[r].hit[1].at = CACHE_STALE
    /\ mreq[r].up # Absent /\ MdtFetchFailed(mreq[r].up[1])
    /\ mreq[r].resp[1].status = 502

(***************************************************************************)
(* api/udot.js and api/proxy/[...path].js : the UDOT proxies               *)
(* An upstream body is the sequence of its first characters.               *)
(***************************************************************************)
UdotHandlers == {"udot", "proxy"}

\* req.query.p of api/udot.js, and the joined req.query.path segments of
\* api/proxy/[...path].js ("" when the parameter is missing)
UdotQuery(h) == IF h = "udot" THEN {"", "/map/mapIcons/Cameras"} ELSE {"", "map/mapIcons/Cameras"}

UdotBodies == { <<"{", "}">>,
                <<"[", "]">>,
                <<" ", "\n", "{", "}">>,
                <<"<", "h", "t", "m", "l", ">">>,
                <<"\n", "<", "!">>,
                <<>> }

UdotUpstream ==
  [status : {200, 403, 500}, contentType : {"application/json", "text/html", ""}, body : UdotBodies]

\* JSON.stringify({error: e.message})
UdotErrorBody == [raw |-> <<>>, fields |-> {"error"}]
UdotRaw(b)    == [raw |-> b, fields |-> {}]

\* const targetPath = req.query.p || '/', and '/' + segments.join('/')
UdotTargetPath(h, p) == IF h = "udot" THEN (IF p = "" THEN "/" ELSE p) ELSE "/" \o p

\* the Content-Type header written by the https.request callback
UdotContentType(h, ct) ==
  IF h = "udot" THEN ct ELSE (IF ct = "" THEN "application/octet-stream" ELSE ct)

\* A request: the handler, where it is, the path requested upstream, what
\* the upstream answered, res.headersSent, and the response so far.
UdotRequest(h, method, pc, path, up, sent, resp) ==
  [handler |-> h, method |-> method, pc |-> pc, path |-> path, up |-> up,
   headersSent |-> sent, resp |-> resp]

UdotResponse(status, ct, cc, body, ended) ==
  [status |-> status, contentType |-> ct, cacheControl |-> cc, body |-> body, ended |-> ended]

\* the handler up to proxyReq.end()
UdotArrive(h, method, p) ==
  /\ ureq = Absent
  /\ ureq' = Some(IF method = "OPTIONS"
                  THEN UdotRequest(h, method, "done", "", Absent, TRUE, UdotResponse(204, "", "", UdotRaw(<<>>), TRUE))
                  ELSE UdotRequest(h, method, "pending", UdotTargetPath(h, p), Absent, FALSE,
                                   UdotResponse(0, "", "", UdotRaw(<<>>), FALSE)))

\* the https.request callback: res.writeHead(proxyRes.statusCode, headers)
UdotOnResponse(up) ==
  /\ ureq # Absent /\ ureq[1].pc = "pending"
  /\ ureq' = Some(UdotRequest(ureq[1].handler, ureq[1].method, "piping", ureq[1].path, Some(up), TRUE,
                    UdotResponse(up.status, UdotContentType(ureq[1].handler, up.contentType),
                                 "no-cache", UdotRaw(<<>>), FALSE)))

\* proxyRes.pipe(res) reaches the end of the upstream body
UdotPipeEnd ==
  /\ ureq # Absent /\ ureq[1].pc = "piping"
  /\ ureq' = Some([ureq[1] EXCEPT !.pc = "done",
                                  !.resp.body = UdotRaw(ureq[1].up[1].body),
                                  !.resp.ended = TRUE])

\* proxyReq.on('error'): before the response, or after its headers
UdotOnError ==
  /\ ureq # Absent /\ ureq[1].pc \in {"pending", "piping"}
  /\ LET q == ureq[1] IN
     ureq' = Some(
       IF q.handler = "udot"
       THEN IF ~q.headersSent
            THEN [q EXCEPT !.pc = "done", !.headersSent = TRUE,
                           !.resp = UdotResponse(502, "", "", UdotErrorBody, TRUE)]
            ELSE [q EXCEPT !.pc = "aborted"]
       ELSE IF ~q.headersSent
            THEN [q EXCEPT !.pc = "done", !.headersSent = TRUE,
                           !.resp = UdotResponse(502, "application/json", "", UdotErrorBody, TRUE)]
            ELSE [q EXCEPT !.pc = "done", !.resp.body = UdotErrorBody, !.resp.ended = TRUE])

\* the connection is over
UdotClose ==
  /\ ureq # Absent /\ ureq[1].pc \in {"done", "aborted"}
  /\ ureq' = Absent

UdotOther == <<now, gRaw, gRes, cache, mreq, imageCache, lastGoodCache, mdtUrlCache, sreq, ImgVars, NamesVars, SnowVars, ClientVars>>

UdotInit ==
  /\ now = 0
  /\ cache = Absent
  /\ mreq = [r \in MdtReqs |-> MdtIdle]
  /\ gRaw = Absent /\ gRes = Absent
  /\ ureq = Absent
  /\ imageCache = NoImages /\ lastGoodCache = NoImages /\ mdtUrlCache = NoUrls
  /\ sreq = Absent
  /\ ImgIdle /\ NamesIdle /\ SnowIdle /\ ClientIdle

UdotNext ==
  \/ \E h \in UdotHandlers, method \in {"GET", "OPTIONS"} : \E p \in UdotQuery(h) :
       UdotArrive(h, method, p) /\ UNCHANGED UdotOther
  \/ \E up \in UdotUpstream : UdotOnResponse(up) /\ UNCHANGED UdotOther
  \/ UdotPipeEnd /\ UNCHANGED UdotOther
  \/ UdotOnError /\ UNCHANGED UdotOther
  \/ UdotClose /\ UNCHANGED UdotOther

SpecUdot == UdotInit /\ [][UdotNext]_vars

(***************************************************************************)
(* Specifications of the SSRF guard alone and of the snapshot handler      *)
(***************************************************************************)
GuardInit ==
  /\ gRaw \in {Some(u) : u \in GuardUrls}
  /\ gRes = Absent
  /\ now = 0
  /\ cache = Absent
  /\ mreq = [r \in MdtReqs |-> MdtIdle]
  /\ ureq = Absent
  /\ imageCache = NoImages /\ lastGoodCache = NoImages /\ mdtUrlCache = NoUrls
  /\ sreq = Absent
  /\ ImgIdle /\ NamesIdle /\ SnowIdle /\ ClientIdle

GuardNext ==
  GuardCall /\ UNCHANGED <<now, cache, mreq, ureq, imageCache, lastGoodCache, mdtUrlCache, sreq, ImgVars, NamesVars, SnowVars, ClientVars>>

SpecGuard == GuardInit /\ [][GuardNext]_vars

SnapOther == <<gRaw, gRes, cache, mreq, ureq, ImgVars, NamesVars, SnowVars, ClientVars>>

SnapInit ==
  /\ now = 0
  /\ imageCache = NoImages /\ lastGoodCache = NoImages /\ mdtUrlCache = NoUrls
  /\ sreq = Absent
  /\ ImgIdle /\ NamesIdle /\ SnowIdle /\ ClientIdle
  /\ gRaw = Absent /\ gRes = Absent
  /\ cache = Absent
  /\ mreq = [r \in MdtReqs |-> MdtIdle]
  /\ ureq = Absent

SnapNext ==
  \/ \E method \in {"GET", "OPTIONS"}, id \in SnapIds, url \in SnapUrlParams :
       SnapArrive(method, id, url) /\ UNCHANGED SnapOther
  \/ \E m \in MetaOutcomes : SnapResolved(m) /\ UNCHANGED SnapOther
  \/ \E o \in FetchOutcomes : SnapSettle(o) /\ UNCHANGED SnapOther
  \/ SnapClose /\ UNCHANGED SnapOther
  \/ SnapTick /\ UNCHANGED SnapOther

SpecSnap == SnapInit /\ [][SnapNext]_vars

(***************************************************************************)
(* cli/mts-cli.js : serveMdtImage, the image redirect endpoint             *)
(* (/api/mdt-image?id=).  Time is in seconds.  A response that writeHead   *)
(* has prepared but end() has not finished has ended = FALSE.              *)
(***************************************************************************)
IMG_CACHE_TTL == 30
ImgTimes == {0, 10, 30, 40}

UrlShareLater == Url("https", Name(PublicHost), "/share-later.jpg")

TRANSPARENT_GIF == "transparent-gif"

\* What fetchJson and lines 419-421 find: a network error, a body that is
\* not JSON, no images, an image without publicSharePath, or a URL
ImgMetaOutcomes ==
  {MetaOutcome(k, UrlInvalid) : k \in {"error", "notjson", "noimages", "nopath"}}
    \cup {MetaOutcome("url", u) : u \in {UrlShare, UrlShareLater}}

ImgResponse(status, location, body, ended) ==
  [status |-> status, location |-> location, body |-> body, ended |-> ended]

\* A request: where it is, req.method, the id parameter, the local variable
\* cached, whether the metadata call failed, and the response.
ImgRequest(pc, method, id, cached, failed, resp) ==
  [pc |-> pc, method |-> method, id |-> id, cached |-> cached, failed |-> failed, resp |-> resp]

\* res.writeHead(302, {Location: url, ...}) then res.end(): writeHead
\* throws when the header value is undefined
ImgRedirect(q, url) ==
  IF url = Absent THEN [q EXCEPT !.pc = "threw", !.resp = ImgResponse(302, Absent, "", FALSE)]
  ELSE [q EXCEPT !.pc = "done", !.resp = ImgResponse(302, url, "", TRUE)]

\* cached && (Date.now() - cached.at) < IMG_CACHE_TTL
ImgIsFresh(cached, t) == cached # Absent /\ t - cached[1].at < IMG_CACHE_TTL

\* the catch block, lines 425-434: with a cached entry the headers are
\* written and the response is not ended
ImgCatch(q) ==
  LET f == [q EXCEPT !.failed = TRUE] IN
  IF f.cached # Absent
  THEN IF f.cached[1].url = Absent
       THEN [f EXCEPT !.pc = "threw", !.resp = ImgResponse(302, Absent, "", FALSE)]
       ELSE [f EXCEPT !.pc = "returned", !.resp = ImgResponse(302, f.cached[1].url, "", FALSE)]
  ELSE [f EXCEPT !.pc = "done", !.resp = ImgResponse(200, Absent, TRANSPARENT_GIF, TRUE)]

\* the request listener (lines 444-472) and serveMdtImage up to the await
ImgArrive(method, id) ==
  /\ ireq = Absent
  /\ LET q == ImgRequest("start", method, id, imgUrlCache, FALSE, ImgResponse(0, Absent, "", FALSE)) IN
     ireq' = Some(
       IF method = "OPTIONS" THEN [q EXCEPT !.pc = "done", !.resp = ImgResponse(204, Absent, "", TRUE)]
       ELSE IF ~NumericId(id)
         THEN [q EXCEPT !.pc = "done", !.resp = ImgResponse(400, Absent, "Invalid id", TRUE)]
       ELSE IF ImgIsFresh(imgUrlCache, now) THEN ImgRedirect(q, imgUrlCache[1].url)
       ELSE [q EXCEPT !.pc = "resolving"])
  /\ UNCHANGED <<now, imgUrlCache>>

\* lines 418-434: fetchJson settles
ImgResolved(m) ==
  /\ ireq # Absent /\ ireq[1].pc = "resolving"
  /\ LET q == ireq[1] IN
     IF m.kind = "url"
     THEN /\ imgUrlCache' = Some([url |-> Some(m.url), at |-> now])
          /\ ireq' = Some(ImgRedirect(q, Some(m.url)))
     ELSE IF m.kind = "nopath"
     THEN /\ imgUrlCache' = Some([url |-> Absent, at |-> now])
          /\ ireq' = Some(ImgCatch(q))
     ELSE /\ imgUrlCache' = imgUrlCache
          /\ ireq' = Some(ImgCatch(q))
  /\ now' = now

ImgOver == ireq # Absent /\ ireq[1].pc \in {"done", "returned", "threw"}

\* the request is over: the response was delivered, or the client gave up
ImgClose ==
  /\ ImgOver
  /\ ireq' = Absent
  /\ UNCHANGED <<now, imgUrlCache>>

\* the rejection of serveMdtImage's promise is handled nowhere: the
\* process may exit, and a new one starts with an empty cache
ImgCrash ==
  /\ ireq # Absent /\ ireq[1].pc = "threw"
  /\ ireq' = Absent /\ imgUrlCache' = Absent
  /\ now' = now

ImgTick ==
  /\ ~ImgOver
  /\ \E t \in ImgTimes : t > now /\ now' = t
  /\ UNCHANGED <<ireq, imgUrlCache>>

ImgOther == <<gRaw, gRes, cache, mreq, ureq, imageCache, lastGoodCache, mdtUrlCache, sreq, NamesVars, SnowVars, ClientVars>>

ImgInit ==
  /\ now = 0
  /\ gRaw = Absent /\ gRes = Absent
  /\ cache = Absent
  /\ mreq = [r \in MdtReqs |-> MdtIdle]
  /\ ureq = Absent
  /\ imageCache = NoImages /\ lastGoodCache = NoImages /\ mdtUrlCache = NoUrls
  /\ sreq = Absent
  /\ ImgIdle /\ NamesIdle /\ SnowIdle /\ ClientIdle

ImgNext ==
  \/ \E method \in {"GET", "OPTIONS"}, id \in SnapIds : ImgArrive(method, id) /\ UNCHANGED ImgOther
  \/ \E m \in ImgMetaOutcomes : ImgResolved(m) /\ UNCHANGED ImgOther
  \/ ImgClose /\ UNCHANGED ImgOther
  \/ ImgCrash /\ UNCHANGED ImgOther
  \/ ImgTick /\ UNCHANGED ImgOther

SpecImage == ImgInit /\ [][ImgNext]_vars

(***************************************************************************)
(* api/camnames.js : the camera-name fan-out aggregator                    *)
(* A JSON value is its shape and its list of items; an item has the fields *)
(* the code reads ("" for a missing one) or is null.  Time is in minutes.  *)
(***************************************************************************)
TTL == 5
NameTimes == {0, 4, 5}

\* Bound: the list endpoints are listId 0..MaxListId (0..19 in the code)
MaxListId == 0

\* The entries of the array fetches, in the order they are pushed: the
\* list endpoints, an alternate endpoint (the three of the code share one
\* code path), and mapIcons
ListBranch(i)  == [kind |-> "list", n |-> i]
AltBranch      == [kind |-> "alt", n |-> 0]
MapIconsBranch == [kind |-> "mapIcons", n |-> 0]
Branches == {ListBranch(i) : i \in 0..MaxListId} \cup {AltBranch, MapIconsBranch}

\* the index of a branch in fetches
FetchIndex(b) ==
  IF b.kind = "list" THEN b.n ELSE IF b.kind = "alt" THEN MaxListId + 1 ELSE MaxListId + 2

NameIds == {"1", "2"}

NoItem ==
  [isNull |-> FALSE, id |-> "", cameraId |-> "", itemId |-> "", location |-> "", name |-> "",
   description |-> "", title |-> "", roadway |-> "", road |-> ""]
NullItem == [NoItem EXCEPT !.isNull = TRUE]

Json(shape, items) == [shape |-> shape, items |-> items]

BodyList    == Json("array", <<[NoItem EXCEPT !.id = "1", !.location = "Alpha", !.roadway = "I-15"]>>)
BodyWrapped == Json("data", <<[NoItem EXCEPT !.cameraId = "1", !.name = "Beta", !.road = "US-89"],
                              [NoItem EXCEPT !.itemId = "2", !.title = "Gamma"]>>)
BodyBroken  == Json("array", <<[NoItem EXCEPT !.id = "2", !.location = "Delta"], NullItem>>)
BodyIcons   == Json("item2", <<[NoItem EXCEPT !.itemId = "1", !.title = "Icon One"]>>)
BodyScalar  == Json("dataScalar", <<>>)
BodyRepeat  == Json("cameras", <<[NoItem EXCEPT !.id = "2", !.description = "Epsilon"],
                                 [NoItem EXCEPT !.id = "2", !.location = "Zeta", !.roadway = "I-80"]>>)
NameBodies  == {BodyList, BodyWrapped, BodyBroken, BodyIcons, BodyScalar, BodyRepeat}

\* What fetchJson settles with: a network error, a body JSON.parse
\* rejects, or a JSON value
NameOutcome(kind, json) == [kind |-> kind, json |-> json]
NameOutcomes ==
  {NameOutcome("error", BodyScalar), NameOutcome("notjson", BodyScalar)}
    \cup {NameOutcome("json", b) : b \in NameBodies}

NameRecord(loc, rd) == [location |-> loc, roadway |-> rd]
NoNames == [id \in NameIds |-> Absent]

FirstOf(strs) ==
  IF \E i \in 1..Len(strs) : strs[i] # ""
  THEN strs[CHOOSE i \in 1..Len(strs) : strs[i] # "" /\ \A j \in 1..(i - 1) : strs[j] = ""]
  ELSE ""

\* the three const lines of absorb's callback, and of the mapIcons callback
ItemId(kind, c)  == IF kind = "mapIcons" THEN c.itemId ELSE FirstOf(<<c.id, c.cameraId, c.itemId>>)
ItemLoc(kind, c) ==
  IF kind = "mapIcons" THEN FirstOf(<<c.title, c.name, c.description>>)
  ELSE FirstOf(<<c.location, c.name, c.description, c.title>>)
ItemRoad(kind, c) == IF kind = "mapIcons" THEN "" ELSE FirstOf(<<c.roadway, c.road>>)

\* The list a callback iterates over, or that it throws or returns first:
\* Array.isArray(json) ? json : (json.data || json.cameras || []), and
\* (data.item2 || [])
ItemsOf(kind, json) ==
  IF json.shape = "null" THEN [threw |-> TRUE, items |-> <<>>]
  ELSE IF kind = "mapIcons"
       THEN [threw |-> FALSE, items |-> IF json.shape = "item2" THEN json.items ELSE <<>>]
       ELSE [threw |-> FALSE,
             items |-> IF json.shape \in {"array", "data", "cameras"} THEN json.items ELSE <<>>]

RECURSIVE ForEachOverwrite(_, _, _, _)
ForEachOverwrite(kind, items, merged, wrote) ==
  IF items = <<>> THEN [merged |-> merged, wrote |-> wrote, threw |-> FALSE]
  ELSE LET c == Head(items) IN
       IF c.isNull THEN [merged |-> merged, wrote |-> wrote, threw |-> TRUE]
       ELSE LET id == ItemId(kind, c)  loc == ItemLoc(kind, c) IN
            IF id # "" /\ loc # ""
            THEN ForEachOverwrite(kind, Tail(items),
                         [merged EXCEPT ![id] = Some(NameRecord(loc, ItemRoad(kind, c)))],
                         wrote \cup {id})
            ELSE ForEachOverwrite(kind, Tail(items), merged, wrote)

RECURSIVE ForEachIntoNew(_, _, _, _)
ForEachIntoNew(kind, items, merged, wrote) ==
  IF items = <<>> THEN [merged |-> merged, wrote |-> wrote, threw |-> FALSE]
  ELSE LET c == Head(items)
           m == IF wrote = {} THEN NoNames ELSE merged IN
       IF c.isNull THEN [merged |-> merged, wrote |-> wrote, threw |-> TRUE]
       ELSE LET id == ItemId(kind, c)  loc == ItemLoc(kind, c) IN
            IF id # "" /\ loc # "" /\ m[id] = Absent
            THEN ForEachIntoNew(kind, Tail(items),
                         [m EXCEPT ![id] = Some(NameRecord(loc, ItemRoad(kind, c)))],
                         wrote \cup {id})
            ELSE ForEachIntoNew(kind, Tail(items), merged, wrote)

\* items.forEach(...): the map after the loop, the ids written, and whether
\* the callback threw (on a null item, with the earlier writes kept)
RECURSIVE ForEach(_, _, _, _)
ForEach(kind, items, merged, wrote) ==
  IF items = <<>> THEN [merged |-> merged, wrote |-> wrote, threw |-> FALSE]
  ELSE LET c == Head(items) IN
       IF c.isNull THEN [merged |-> merged, wrote |-> wrote, threw |-> TRUE]
       ELSE LET id == ItemId(kind, c)  loc == ItemLoc(kind, c) IN
            IF id # "" /\ loc # "" /\ merged[id] = Absent
            THEN ForEach(kind, Tail(items),
                         [merged EXCEPT ![id] = Some(NameRecord(loc, ItemRoad(kind, c)))],
                         wrote \cup {id})
            ELSE ForEach(kind, Tail(items), merged, wrote)

\* fetchJson(...).then(callback): what the callback leaves
Absorb(kind, o, merged) ==
  IF o.kind # "json" THEN [merged |-> merged, wrote |-> {}, threw |-> TRUE]
  ELSE LET l == ItemsOf(kind, o.json) IN
       IF l.threw THEN [merged |-> merged, wrote |-> {}, threw |-> TRUE]
       ELSE ForEach(kind, l.items, merged, {})

BranchPromiseWithoutCatch(threw) == IF threw THEN "rejected" ELSE "fulfilled"

\* .catch(() => {}): the promise pushed into fetches is fulfilled either way
BranchPromise(threw) == "fulfilled"

\* A branch: pending, or settled with its promise, what fetchJson settled
\* with, whether its chain threw, the records its response holds (what it
\* would write into an empty map) and the ids it wrote into merged.
PendingBranch ==
  [promise |-> "pending", got |-> Absent, threw |-> FALSE, returned |-> NoNames, wrote |-> {}]

NamesIsFreshInclusive(c, t) == t - c.at <= TTL /\ c.map # Absent

\* Date.now() - _cacheAt < TTL && _cache
NamesIsFresh(c, t) == t - c.at < TTL /\ c.map # Absent

StartMergedFromCache(c) == IF c.map # Absent THEN c.map[1] ELSE NoNames

\* const merged = {}: what buildNameMap starts from, whatever _cache holds
StartMerged(c) == NoNames

NameResponse(status, cc, body) == [status |-> status, cacheControl |-> cc, body |-> body]

\* the handler up to await buildNameMap(), the fetches issued
NamesArrive ==
  /\ creq = Absent
  /\ creq' = Some(
       IF NamesIsFresh(nameCache, now)
       THEN [pc |-> "done", merged |-> NoNames, branches |-> [b \in Branches |-> PendingBranch],
             resp |-> Some(NameResponse(200, "public, max-age=300", nameCache.map[1]))]
       ELSE [pc |-> "fanout", merged |-> StartMerged(nameCache),
             branches |-> [b \in Branches |-> PendingBranch], resp |-> Absent])
  /\ UNCHANGED <<now, nameCache>>

\* One fetchJson settles and its chain runs; when it is the last one,
\* Promise.all settles and the handler resumes (lines 63-64 and 76-78).
\* A rejection of Promise.all would reject the handler (a 500).
NamesBranchSettle(b, o) ==
  /\ creq # Absent /\ creq[1].pc = "fanout" /\ creq[1].branches[b].promise = "pending"
  /\ LET q  == creq[1]
         a  == Absorb(b.kind, o, q.merged)
         br == [q.branches EXCEPT ![b] =
                  [promise |-> BranchPromise(a.threw), got |-> Some(o), threw |-> a.threw,
                   returned |-> Absorb(b.kind, o, NoNames).merged, wrote |-> a.wrote]]
     IN
     IF \E c \in Branches : br[c].promise = "pending"
     THEN /\ creq' = Some([q EXCEPT !.merged = a.merged, !.branches = br])
          /\ nameCache' = nameCache
     ELSE IF \E c \in Branches : br[c].promise = "rejected"
     THEN /\ creq' = Some([q EXCEPT !.pc = "done", !.merged = a.merged, !.branches = br,
                                    !.resp = Some(NameResponse(500, "public, max-age=300", NoNames))])
          /\ nameCache' = nameCache
     ELSE /\ creq' = Some([q EXCEPT !.pc = "done", !.merged = a.merged, !.branches = br,
                                    !.resp = Some(NameResponse(200, "public, max-age=300", a.merged))])
          /\ nameCache' = [map |-> Some(a.merged), at |-> now]
  /\ now' = now

\* the response has been delivered
NamesClose ==
  /\ creq # Absent /\ creq[1].pc = "done"
  /\ creq' = Absent
  /\ UNCHANGED <<now, nameCache>>

NamesTick ==
  /\ ~(creq # Absent /\ creq[1].pc = "done")
  /\ \E t \in NameTimes : t > now /\ now' = t
  /\ UNCHANGED <<creq, nameCache>>

NamesOther ==
  <<gRaw, gRes, cache, mreq, ureq, imageCache, lastGoodCache, mdtUrlCache, sreq, ImgVars, SnowVars, ClientVars>>

NamesInit ==
  /\ now = 0
  /\ gRaw = Absent /\ gRes = Absent
  /\ cache = Absent
  /\ mreq = [r \in MdtReqs |-> MdtIdle]
  /\ ureq = Absent
  /\ imageCache = NoImages /\ lastGoodCache = NoImages /\ mdtUrlCache = NoUrls
  /\ sreq = Absent
  /\ ImgIdle /\ NamesIdle /\ SnowIdle /\ ClientIdle

NamesNext ==
  \/ NamesArrive /\ UNCHANGED NamesOther
  \/ \E b \in Branches, o \in NameOutcomes : NamesBranchSettle(b, o) /\ UNCHANGED NamesOther
  \/ NamesClose /\ UNCHANGED NamesOther
  \/ NamesTick /\ UNCHANGED NamesOther

SpecNames == NamesInit /\ [][NamesNext]_vars

(***************************************************************************)
(* Properties of the UDOT proxy                                            *)
(***************************************************************************)
\* The first character of a body that is not white space ("" when there is none)
RECURSIVE FirstNonSpace(_)
FirstNonSpace(b) ==
  IF b = <<>> THEN ""
  ELSE IF Head(b) \in {" ", "\n", "\t", "\r"} THEN FirstNonSpace(Tail(b))
  ELSE Head(b)

\* A challenge page (the test BUILD-NOTES.md describes; the proxies have none): the first non-white-space character is neither { nor [
ChallengePage(b) == FirstNonSpace(b) \notin {"{", "["}

UdotDone(h) == ureq # Absent /\ ureq[1].handler = h /\ ureq[1].pc = "done" /\ ureq[1].method = "GET"

\* C4: an upstream 200 whose body is a challenge page is never delivered
\* by api/udot.js as a successful response carrying that body.
C4_ChallengeNeverDelivered ==
  ( /\ UdotDone("udot") /\ ureq[1].up # Absent
    /\ ureq[1].up[1].status = 200 /\ ChallengePage(ureq[1].up[1].body) )
  => ~(ureq[1].resp.status = 200 /\ ureq[1].resp.body = UdotRaw(ureq[1].up[1].body))

\* C5: with no cache entry (the proxies keep none), an unreachable upstream
\* or a challenge page is answered 503 with a JSON body that has the
\* fields error and preview.
C5_Unavailable503 ==
  \A h \in UdotHandlers :
    ( /\ UdotDone(h)
      /\ \/ ureq[1].up = Absent
         \/ ureq[1].up[1].status = 200 /\ ChallengePage(ureq[1].up[1].body) )
    => /\ ureq[1].resp.status = 503
       /\ {"error", "preview"} \subseteq ureq[1].resp.body.fields

(***************************************************************************)
(* Properties of the SSRF guard and of the snapshot handler                *)
(***************************************************************************)
\* C6: isSafeUrl returns false for every URL whose scheme is not https or
\* whose host denotes a loopback, private, link-local or unspecified
\* address; the three URLs the specification names are rejected and
\* https://public-host.example/x is accepted.
C6_GuardRejectsInternal ==
  gRes # Absent =>
    LET u == gRaw[1] IN
    /\ (u.scheme # "https" \/ DenotesInternal(u.host)) => gRes[1] = FALSE
    /\ u = Url("http", IPv4(127, 0, 0, 1), "/x") => gRes[1] = FALSE
    /\ u = Url("https", IPv4(10, 1, 2, 3), "/x") => gRes[1] = FALSE
    /\ u = Url("https", Name(Localhost), "/x") => gRes[1] = FALSE
    /\ u = Url("https", Name(PublicHost), "/x") => gRes[1] = TRUE

SnapCaches == <<imageCache, lastGoodCache, mdtUrlCache>>

\* C7: every redirect target is checked by the guard before it is
\* followed: an image request issued after a redirect goes to a URL that
\* isSafeUrl accepts.  Stated for requests with ?url=, whose first URL has
\* passed the guard, so that only redirects can lead to another URL.
C7_RedirectTargetsGuarded ==
  (sreq # Absent /\ sreq[1].pc = "fetching" /\ sreq[1].id = <<>> /\ sreq[1].issued >= 2)
    => isSafeUrl(sreq[1].fetchUrl[1])

\* C8: with ?id=, the URL taken from the metadata call is checked by the
\* guard before the image fetcher dereferences it: the first image request
\* of such a request goes to a URL that isSafeUrl accepts.
C8_ResolvedUrlGuarded ==
  (sreq # Absent /\ sreq[1].pc = "fetching" /\ sreq[1].id # <<>> /\ sreq[1].issued = 1)
    => isSafeUrl(sreq[1].fetchUrl[1])

\* C9: a GET whose url parameter the guard rejects is answered 400 in the
\* step in which it arrives, with no metadata call and no image request
\* issued and the three caches unchanged; nothing more is done for a
\* request answered 400 (it is not retried).
C9_RejectedUrl400 ==
  [][ /\ ( /\ sreq = Absent /\ sreq' # Absent /\ sreq'[1].method = "GET"
           /\ sreq'[1].url # Absent /\ ~isSafeUrl(sreq'[1].url[1]) )
         => /\ sreq'[1].pc = "done"
            /\ sreq'[1].resp[1].status = 400
            /\ sreq'[1].issued = 0 /\ sreq'[1].resolves = 0
            /\ UNCHANGED SnapCaches
      /\ (sreq # Absent /\ sreq[1].pc = "done" /\ sreq[1].resp[1].status = 400)
         => sreq' = Absent /\ UNCHANGED SnapCaches
    ]_vars

\* C9 witness: url=http://192.168.1.5/cam.jpg answered 400 while the caches
\* hold an image
C9_Witness ==
  /\ sreq # Absent /\ sreq[1].pc = "done" /\ sreq[1].url = Some(UrlLan)
  /\ sreq[1].resp[1].status = 400 /\ sreq[1].issued = 0
  /\ lastGoodCache[UrlKey(UrlCam)] # Absent

\* C10: one fetchImageBuffer call issues at most 6 requests; a 200 after at
\* most 5 redirects resolves with the final body (the handler answers MISS
\* with it); a 6th redirect rejects with 'Too many redirects', and that
\* failure occurs only there.
C10_RedirectBudget ==
  sreq # Absent =>
    LET q == sreq[1] IN
    /\ q.issued <= 6
    /\ (q.pc = "done" /\ q.last = "ok") =>
         /\ q.err = ""
         /\ q.resp[1].status = 200 /\ q.resp[1].xsnapshot = "MISS"
         /\ q.resp[1].body = lastGoodCache[q.key][1].buf
    /\ (q.pc = "done" /\ q.last = "redirect" /\ q.issued = 6) => q.err = "Too many redirects"
    /\ (q.pc = "done" /\ q.err = "Too many redirects") => q.last = "redirect" /\ q.issued = 6

\* C10 witness: exactly 5 redirects, then a 200
C10_Witness ==
  /\ sreq # Absent /\ sreq[1].pc = "done" /\ sreq[1].last = "ok" /\ sreq[1].issued = 6
  /\ sreq[1].resp[1].xsnapshot = "MISS"

(***************************************************************************)
(* Properties of the image pipeline (api/cam-snapshot.js)                  *)
(***************************************************************************)
\* A well-formed request: a GET with a numeric id or a url the guard
\* accepts, and no parameter the handler refuses
SnapWellFormed(q) ==
  /\ q.method = "GET"
  /\ ~(q.id = <<>> /\ q.url = Absent)
  /\ (q.id = <<>> \/ NumericId(q.id))
  /\ (q.url = Absent \/ isSafeUrl(q.url[1]))

SnapDone == sreq # Absent /\ sreq[1].pc = "done"

SnapServedTags == {"HIT", "MISS", "STALE"}

\* C11: every well-formed request is answered 200 with a non-empty body,
\* whatever the upstream does (errors, timeouts, other statuses, redirects,
\* and 200 responses with any body).
C11_AlwaysRenderable ==
  (SnapDone /\ SnapWellFormed(sreq[1]))
    => sreq[1].resp[1].status = 200 /\ sreq[1].resp[1].body # ""

C14_SuccessPath ==
  [][ ( /\ sreq # Absent /\ sreq[1].pc = "fetching"
        /\ sreq' # Absent /\ sreq'[1].pc = "done" /\ sreq'[1].last = "ok" )
      => \E im \in Images :
           LET ct == IF im.contentType = "" THEN "image/jpeg" ELSE im.contentType
               k  == sreq[1].key IN
           /\ imageCache'[k] = Some([buf |-> im.buf, contentType |-> ct, fetchedAt |-> now'])
           /\ lastGoodCache'[k] = Some([buf |-> im.buf, contentType |-> ct])
           /\ sreq'[1].resp[1].status = 200
           /\ sreq'[1].resp[1].xsnapshot = "MISS"
           /\ sreq'[1].resp[1].body = im.buf
           /\ sreq'[1].resp[1].contentType = ct
    ]_vars

\* C14 witness: a second success for a key, later than the first
C14_Witness ==
  /\ SnapDone /\ sreq[1].last = "ok" /\ now = 720
  /\ sreq[1].resp[1].xsnapshot = "MISS" /\ sreq[1].resp[1].body = "jpegB"
  /\ imageCache[sreq[1].key] = Some([buf |-> "jpegB", contentType |-> "image/jpeg", fetchedAt |-> 720])

\* C15: a well-formed request that arrives while imageCache holds an entry
\* for its key younger than 12 hours is answered, in the arrival step, 200
\* HIT with the cached bytes, with no metadata call and no image request.
C15_FreshHit ==
  [][ ( /\ sreq = Absent /\ sreq' # Absent /\ SnapWellFormed(sreq'[1])
        /\ imageCache[sreq'[1].key] # Absent
        /\ now - imageCache[sreq'[1].key][1].fetchedAt < 720 )
      => /\ sreq'[1].pc = "done"
         /\ sreq'[1].resp[1].status = 200 /\ sreq'[1].resp[1].xsnapshot = "HIT"
         /\ sreq'[1].resp[1].body = imageCache[sreq'[1].key][1].buf
         /\ sreq'[1].resp[1].contentType = imageCache[sreq'[1].key][1].contentType
         /\ sreq'[1].resolves = 0 /\ sreq'[1].issued = 0
         /\ UNCHANGED SnapCaches
    ]_vars

\* C15 witness: an entry fetched at minute 1 is served at minute 720
C15_Witness ==
  /\ SnapDone /\ now = 720 /\ sreq[1].resp[1].xsnapshot = "HIT"
  /\ imageCache[sreq[1].key][1].fetchedAt = 1 /\ sreq[1].issued = 0

(***************************************************************************)
(* Properties of the dynamic URL resolution and of the redirect endpoint   *)
(***************************************************************************)
\* C16: when the metadata call for an id fails, no previously resolved URL
\* is used in its place: the response of serveMdtImage carries no Location
\* taken from the cache.
C16_NoStaleUrlOnFailure ==
  (ImgOver /\ ireq[1].failed) => ireq[1].resp.location = Absent

\* C17: a request with a numeric id ends with a finished response that is
\* either 302 with a Location, or 200 with the transparent GIF when the
\* resolution failed; the handler never returns or throws with the
\* response unfinished.
C17_RedirectOrGif ==
  (ImgOver /\ ireq[1].method = "GET" /\ NumericId(ireq[1].id)) =>
    LET q == ireq[1] IN
    /\ q.resp.ended
    /\ \/ q.resp.status = 302 /\ q.resp.location # Absent
       \/ q.resp.status = 200 /\ q.resp.body = TRANSPARENT_GIF /\ q.failed

(***************************************************************************)
(* Properties of the camera-name aggregator                                *)
(***************************************************************************)
\* a request whose fan-out has been joined
NamesJoined ==
  /\ creq # Absent /\ creq[1].pc = "done"
  /\ \A b \in Branches : creq[1].branches[b].promise # "pending"

\* C18: whatever each branch settles with (records, a network error, a
\* body that is not JSON, an unexpected shape), the join does not reject
\* and the response is 200 with an object that maps ids to records with
\* the fields location and roadway; it is the empty object when no branch
\* resolved anything.
C18_AlwaysAnswers ==
  (creq # Absent /\ creq[1].pc = "done") =>
    LET r == creq[1].resp[1] IN
    /\ r.status = 200
    /\ DOMAIN r.body = NameIds
    /\ \A id \in NameIds :
         r.body[id] # Absent =>
           DOMAIN r.body[id][1] = {"location", "roadway"} /\ r.body[id][1].location # ""
    /\ (NamesJoined /\ \A b \in Branches : creq[1].branches[b].returned = NoNames)
         => r.body = NoNames

\* C18 witness: a join of a branch that failed with branches that resolved
\* records
C18_Witness ==
  /\ NamesJoined
  /\ \E b \in Branches : creq[1].branches[b].threw /\ creq[1].branches[b].returned = NoNames
  /\ \E b \in Branches : ~creq[1].branches[b].threw /\ creq[1].branches[b].wrote = {"1", "2"}
  /\ creq[1].resp[1].status = 200 /\ creq[1].resp[1].body = creq[1].merged

\* C19: a branch whose chain threw (while fetching, parsing or normalizing)
\* has written no record into the merged map.
C19_FailedBranchContributesNothing ==
  NamesJoined =>
    \A b \in Branches : creq[1].branches[b].threw => creq[1].branches[b].wrote = {}

\* C20: when every branch completed without error, the merged map holds,
\* for each id, the record of the first source in priority order (list
\* endpoints, then alternates, then mapIcons) that returned one, whatever
\* the order in which the responses arrived.
C20_PriorityWins ==
  (NamesJoined /\ \A b \in Branches : ~creq[1].branches[b].threw) =>
    \A id \in NameIds :
      LET S == {b \in Branches : creq[1].branches[b].returned[id] # Absent} IN
      S # {} =>
        LET first == CHOOSE b \in S : \A c \in S : FetchIndex(b) <= FetchIndex(c) IN
        creq[1].merged[id] = creq[1].branches[first].returned[id]

\* the fan-out of the request in flight goes on, or is joined, in this step
NamesCycleStep ==
  creq # Absent /\ creq[1].pc = "fanout" /\ creq' # Absent

\* the first item of a list that yields a record for an id, as a record
FirstRecordFor(kind, items, id) ==
  LET I == {i \in 1..Len(items) :
              ~items[i].isNull /\ ItemId(kind, items[i]) = id /\ ItemLoc(kind, items[i]) # ""}
      i == CHOOSE i \in I : \A j \in I : i <= j
  IN NameRecord(ItemLoc(kind, items[i]), ItemRoad(kind, items[i]))

\* C21: within one aggregation cycle a record written for an id is never
\* overwritten or removed by a later response, and the record a response
\* writes for an id is that of its first item for the id (a later item of
\* the same source does not replace it).
C21_FirstWriterWins ==
  [][ NamesCycleStep =>
        /\ \A id \in NameIds :
             creq[1].merged[id] # Absent => creq'[1].merged[id] = creq[1].merged[id]
        /\ \A b \in Branches : \A id \in NameIds :
             (creq[1].branches[b].promise = "pending" /\ id \in creq'[1].branches[b].wrote)
               => creq'[1].merged[id] =
                    Some(FirstRecordFor(b.kind, creq'[1].branches[b].got[1].json.items, id))
    ]_vars

\* C21 witness: a source that names id 2 twice has written its first
\* record, and another source offered a different record for id 2 later
C21_Witness ==
  /\ NamesJoined
  /\ creq[1].branches[ListBranch(0)].got = Some(NameOutcome("json", BodyRepeat))
  /\ creq[1].branches[ListBranch(0)].wrote = {"2"}
  /\ creq[1].branches[AltBranch].got = Some(NameOutcome("json", BodyWrapped))
  /\ creq[1].branches[AltBranch].wrote = {"1"}
  /\ creq[1].merged["2"] = Some(NameRecord("Epsilon", ""))

\* the ids for which a branch's response holds a record
ReturnedIds(b) == {id \in NameIds : creq[1].branches[b].returned[id] # Absent}

DisjointSources ==
  \A b, c \in Branches : b # c => ReturnedIds(b) \cap ReturnedIds(c) = {}

\* C22: when the id sets of the sources are pairwise disjoint, the merged
\* map is the union of what the sources returned, in whatever order the
\* branches completed.
C22_DisjointOrderIndependent ==
  (NamesJoined /\ DisjointSources) =>
    \A id \in NameIds :
      /\ \A b \in Branches :
           id \in ReturnedIds(b) => creq[1].merged[id] = creq[1].branches[b].returned[id]
      /\ (\A b \in Branches : id \notin ReturnedIds(b)) => creq[1].merged[id] = Absent

\* C22 witness: two sources with disjoint ids, the lower-priority one
\* having completed while the other was pending
C22_Witness ==
  /\ NamesJoined /\ DisjointSources
  /\ ReturnedIds(ListBranch(0)) = {"1"}
  /\ ReturnedIds(MapIconsBranch) = {}
  /\ ReturnedIds(AltBranch) = {"2"}
  /\ creq[1].merged["1"] # Absent /\ creq[1].merged["2"] # Absent

\* C23: a request that arrives less than 5 minutes after the last completed
\* aggregation is answered in that step with the cached map, with no
\* upstream request; the fan-out starts only when no map is cached or the
\* cached one is at least 5 minutes old.
C23_NameCacheTtl ==
  [][ (creq = Absent /\ creq' # Absent) =>
        IF nameCache.map # Absent /\ now - nameCache.at < 5
        THEN /\ creq'[1].pc = "done"
             /\ creq'[1].resp[1].status = 200 /\ creq'[1].resp[1].body = nameCache.map[1]
             /\ nameCache' = nameCache
        ELSE creq'[1].pc = "fanout"
    ]_vars

\* C23 witness: a request served from the cache at minute 4
C23_Witness ==
  /\ creq # Absent /\ creq[1].pc = "done" /\ now = 4 /\ nameCache.at = 0
  /\ \A b \in Branches : creq[1].branches[b].promise = "pending"
  /\ creq[1].resp[1].body = nameCache.map[1] /\ nameCache.map[1] # NoNames

\* C30: the cached map changes only when a fan-out is joined, and it becomes
\* exactly the map of that cycle: every record in it was written by a
\* branch of the cycle, and nothing of the previous map remains otherwise.
C30_WholesaleRecompute ==
  [][ /\ nameCache' # nameCache =>
           /\ NamesCycleStep /\ creq'[1].pc = "done"
           /\ nameCache' = [map |-> Some(creq'[1].merged), at |-> now]
           /\ \A id \in NameIds :
                creq'[1].merged[id] # Absent =>
                  \E b \in Branches :
                    /\ id \in creq'[1].branches[b].wrote
                    /\ creq'[1].merged[id] = creq'[1].branches[b].returned[id]
      /\ (NamesCycleStep /\ creq'[1].pc = "fanout") => nameCache' = nameCache
    ]_vars

\* C30 witness: after expiry a new cycle has written a record the cached
\* map lacks, and not the record the cached map holds
C30_Witness ==
  /\ creq # Absent /\ creq[1].pc = "fanout" /\ now = 5 /\ nameCache.at = 0
  /\ nameCache.map # Absent
  /\ nameCache.map[1]["1"] # Absent /\ nameCache.map[1]["2"] = Absent
  /\ creq[1].merged["1"] = Absent /\ creq[1].merged["2"] # Absent

(***************************************************************************)
(* Properties of the manifest cache writes                                 *)
(***************************************************************************)
\* the step in which the fetch of request r settles
MdtSettles(r) == mreq[r].pc = "fetching" /\ mreq'[r].pc = "done"

\* a payload that passed validation: the JSON list of at least one camera
MdtValidPayload(buf) == buf.type = "array" /\ Len(buf.items) >= 1

\* C26: the cache entry is created or replaced only in the step in which a
\* fetch settles with status 200 and at least one usable camera, and it
\* then holds the JSON of those cameras and the current time; a fetch that
\* failed leaves the entry as it is; no step removes an entry.
C26_WriteDiscipline ==
  [][ /\ cache # Absent => cache' # Absent
      /\ cache' # cache =>
           \E r \in MdtReqs :
             /\ MdtSettles(r) /\ ~MdtFetchFailed(mreq'[r].up[1])
             /\ cache' = Some([buf |-> JsonCameras(parseMarkers(mreq'[r].up[1].body)), at |-> now])
             /\ MdtValidPayload(cache'[1].buf)
      /\ \A r \in MdtReqs :
           (MdtSettles(r) /\ MdtFetchFailed(mreq'[r].up[1])) => cache' = cache
    ]_vars

\* C26 witness: a 200 answer without usable cameras has left an older entry
\* in place
C26_Witness ==
  \E r \in MdtReqs :
    /\ MdtDone(r) /\ mreq[r].up = Some([kind |-> "response", status |-> 200, body |-> <<MarkerUtah, MarkerEast>>])
    /\ cache # Absent /\ cache[1].at < now /\ cache = mreq[r].hit

\* C27: when the fetches of two requests for the non-fresh key overlap,
\* each settling leaves a validated payload in the cache: a successful one
\* stores its own payload (the last successful writer's remains), a failing
\* one leaves the entry, including one the other request wrote meanwhile,
\* exactly as it is.
C27_ConcurrentRefetch ==
  [][ \A r \in MdtReqs :
        ( /\ MdtSettles(r)
          /\ \/ \E q \in MdtReqs \ {r} : mreq[q].pc = "fetching"
             \/ cache # mreq[r].hit )
        => /\ IF mreq'[r].resp[1].xcache = "MISS"
              THEN cache' = Some([buf |-> mreq'[r].resp[1].body, at |-> now])
              ELSE cache' = cache
           /\ cache' # Absent => MdtValidPayload(cache'[1].buf)
    ]_vars

\* C27 witness: both requests found no entry and fetched; one stored a
\* payload, then the other failed and the entry is still there
C27_Witness ==
  \E r \in MdtReqs :
    /\ MdtDone(r) /\ mreq[r].hit = Absent /\ mreq[r].up # Absent
    /\ MdtFetchFailed(mreq[r].up[1])
    /\ cache # Absent /\ MdtValidPayload(cache[1].buf)

(***************************************************************************)
(* Properties of the resolver cache (resolveMdtUrl)                        *)
(***************************************************************************)
\* the arrival step of a request that calls resolveMdtUrl: a GET with a
\* numeric id, an acceptable url parameter if any, and no fresh image
SnapCallsResolver ==
  /\ sreq = Absent /\ sreq' # Absent
  /\ SnapWellFormed(sreq'[1]) /\ sreq'[1].id # <<>>
  /\ ~( /\ imageCache[sreq'[1].key] # Absent
        /\ now - imageCache[sreq'[1].key][1].fetchedAt < SNAPSHOT_CACHE_TTL )

\* C29: while the entry for the id is younger than 60 s (1 minute)
\* resolveMdtUrl returns its URL with no metadata call; otherwise it issues
\* a metadata call; a call that succeeds replaces the entry by the new URL
\* and the current time, and the image fetch uses that URL; a call that
\* fails leaves the resolver cache unchanged; nothing else changes it.
C29_ResolverCache ==
  [][ /\ SnapCallsResolver =>
           LET id == sreq'[1].id IN
           IF mdtUrlCache[id] # Absent /\ now - mdtUrlCache[id][1].at < 1
           THEN /\ sreq'[1].resolves = 0 /\ sreq'[1].pc = "fetching"
                /\ sreq'[1].fetchUrl = Some(mdtUrlCache[id][1].url)
                /\ mdtUrlCache' = mdtUrlCache
           ELSE sreq'[1].pc = "resolving" /\ sreq'[1].resolves = 1 /\ sreq'[1].issued = 0
      /\ (sreq # Absent /\ sreq[1].pc = "resolving" /\ sreq'[1].pc # "resolving") =>
           IF sreq'[1].pc = "fetching"
           THEN mdtUrlCache' = [mdtUrlCache EXCEPT ![sreq[1].id] =
                                  Some([url |-> sreq'[1].fetchUrl[1], at |-> now])]
           ELSE sreq'[1].pc = "done" /\ sreq'[1].issued = 0 /\ mdtUrlCache' = mdtUrlCache
      /\ mdtUrlCache' # mdtUrlCache => (sreq # Absent /\ sreq[1].pc = "resolving")
    ]_vars

\* C29 witness: the URL resolved at minute 0 (with which the image cached
\* at minute 0 was fetched) has been replaced by a resolution at minute 721
C29_Witness ==
  /\ sreq # Absent /\ sreq[1].pc = "fetching" /\ sreq[1].resolves = 1 /\ now = 721
  /\ imageCache[MdtKey(<<"7">>)] # Absent /\ imageCache[MdtKey(<<"7">>)][1].fetchedAt = 0
  /\ mdtUrlCache[<<"7">>] = Some([url |-> UrlLan, at |-> 721])

(***************************************************************************)
(* Properties of the response headers                                      *)
(***************************************************************************)
\* C25: every response to a GET of the snapshot handler, the 400 responses
\* included, carries Access-Control-Allow-Origin and a Cache-Control
\* header.
C25_CorsAndCacheControl ==
  (SnapDone /\ sreq[1].method = "GET") =>
    {"Access-Control-Allow-Origin", "Cache-Control"} \subseteq SnapHeaders(sreq[1].resp[1])

(***************************************************************************)
(* Bounded waiting                                                         *)
(***************************************************************************)
\* C24: every manifest request that has issued its upstream call
\* eventually produces a response, even when the upstream never answers.
C24_BoundedWaiting ==
  \A r \in MdtReqs : (mreq[r].pc = "fetching") ~> (mreq[r].pc = "done")

(***************************************************************************)
(* api/snow.js: the NWS snow accumulation endpoint                         *)
(***************************************************************************)
\* CACHE_TTL of api/snow.js: 12 hours, in minutes
SNOW_CACHE_TTL == 720

\* The instants the snow endpoint is observed at (minutes)
SnowTimes == {0, 720}

\* A JSON body of the NWS API: the keys the code reads, absent when missing
NwsBody == [observationStations |-> Absent, features |-> <<>>, properties |-> Absent]

\* /points/{lat},{lng}
PointsBody == [NwsBody EXCEPT !.observationStations = Some("https://api.weather.gov/gridpoints/MSO/stations")]

\* the station list
StationsBody ==
  [NwsBody EXCEPT !.features = <<[stationIdentifier |-> "KMSO", name |-> "Missoula"]>>]

\* /stations/{id}/observations/latest: snow in millimetres, temperature in
\* whole degrees Celsius; snowfallLast6Hours.value is null
ObsBody ==
  [NwsBody EXCEPT !.properties =
     Some([snowfallLast6Hours |-> Absent, snowDepth |-> Some(254),
           temperature |-> Some(0 - 5), timestamp |-> Some("2026-01-01T00:00:00Z")])]

\* What api.weather.gov does with one request, three of its answers: the
\* endpoint's document, a 404, or nothing within REQ_TIMEOUT
NwsAnswers == {"document", "404", "silent"}

\* The document of the endpoint a branch is waiting for
NwsDocument(stage) ==
  CASE stage = "points"   -> PointsBody
    [] stage = "stations" -> StationsBody
    [] OTHER              -> ObsBody

NwsUpstream(stage, answer) ==
  CASE answer = "document" ->
         [kind |-> "response", statusCode |-> 200, json |-> TRUE, body |-> NwsDocument(stage)]
    [] answer = "404" ->
         [kind |-> "response", statusCode |-> 404, json |-> FALSE, body |-> NwsBody]
    [] OTHER ->
         [kind |-> "timeout", statusCode |-> 0, json |-> FALSE, body |-> NwsBody]

\* A promise's outcome
Resolved(v) == [rejected |-> FALSE, value |-> Some(v), message |-> Absent]
Rejected(m) == [rejected |-> TRUE, value |-> Absent, message |-> Some(m)]

\* nwsGet: 404 rejects, a body that is not JSON rejects, REQ_TIMEOUT
\* destroys the request, which rejects through the 'error' event
nwsGet(raw) ==
  IF raw.kind = "timeout" THEN Rejected(<<"NWS request timeout (12000ms)">>)
  ELSE IF raw.statusCode = 404 THEN Rejected(<<"NWS 404">>)
  ELSE IF ~raw.json THEN Rejected(<<"NWS JSON parse error">>)
  ELSE Resolved([status |-> raw.statusCode, body |-> raw.body])

\* toInches: millimetres to tenths of an inch,
\* parseFloat((meters * 39.3701).toFixed(1)); null stays null
toInches(mm) ==
  IF mm = Absent THEN Absent ELSE Some((mm[1] * 393701 + 500000) \div 1000000)

\* toFahrenheit: Math.round(celsius * 9 / 5 + 32); null stays null
toFahrenheit(c) ==
  IF c = Absent THEN Absent ELSE Some((18 * c[1] + 5) \div 10 + 32)

\* The object fetchSnowForResort returns: the keys of both shapes
NoResult ==
  [id |-> "", available |-> FALSE, error |-> Absent, stationId |-> Absent,
   stationName |-> Absent, snowfallLast6h |-> Absent, snowDepth |-> Absent,
   tempF |-> Absent, observationTime |-> Absent]

\* fetchSnowForResort's catch branch
Unavailable(i, msg) == [NoResult EXCEPT !.id = Resorts[i], !.error = Some(msg)]

\* fetchSnowForResort's return on success; props is body.properties || {}
Observation(i, station, props) ==
  LET p == IF props = Absent
           THEN [snowfallLast6Hours |-> Absent, snowDepth |-> Absent,
                 temperature |-> Absent, timestamp |-> Absent]
           ELSE props[1]
  IN [NoResult EXCEPT !.id = Resorts[i], !.available = TRUE,
                      !.stationId = Some(station.stationId),
                      !.stationName = Some(station.stationName),
                      !.snowfallLast6h = toInches(p.snowfallLast6Hours),
                      !.snowDepth = toInches(p.snowDepth),
                      !.tempF = toFahrenheit(p.temperature),
                      !.observationTime = p.timestamp]

\* One fetchSnowForResort call: the nwsGet it awaits (points, stations,
\* obs) or "settled"; the station once resolved; the settled promise
SnowBranch(stage, station, promise) ==
  [stage |-> stage, station |-> station, promise |-> promise]

\* resolveStation's first line: a cached station skips discovery
StartBranch(stations, i) ==
  IF stations[i] # Absent
  THEN SnowBranch("obs", stations[i], Absent)
  ELSE SnowBranch("points", Absent, Absent)

\* The catch of fetchSnowForResort: the promise resolves with available:false
Caught(i, msg) == SnowBranch("settled", Absent, Some(Resolved(Unavailable(i, msg))))

\* fetchSnowForResort and resolveStation resumed by the answer to the
\* nwsGet the branch awaits
BranchStep(i, b, out) ==
  IF out.rejected THEN Caught(i, out.message[1])
  ELSE LET res == out.value[1] IN
    CASE b.stage = "points" ->
           IF res.status # 200 THEN Caught(i, <<"Points lookup failed: HTTP", res.status>>)
           ELSE IF res.body.observationStations = Absent
                THEN Caught(i, <<"No observationStations URL in NWS response">>)
                ELSE SnowBranch("stations", Absent, Absent)
      [] b.stage = "stations" ->
           IF res.status # 200 THEN Caught(i, <<"Station list failed: HTTP", res.status>>)
           ELSE IF Len(res.body.features) = 0
                THEN Caught(i, <<"No observation stations found nearby">>)
                ELSE SnowBranch("obs",
                       Some([stationId   |-> res.body.features[1].stationIdentifier,
                             stationName |-> res.body.features[1].name]), Absent)
      [] OTHER ->
           IF res.status # 200 THEN Caught(i, <<"Observation fetch failed: HTTP", res.status>>)
           ELSE SnowBranch("settled", b.station,
                  Some(Resolved(Observation(i, b.station[1], res.body.properties))))

\* stationCache after the step: resolveStation stores the station it found
\* (line 151), the catch deletes the resort's entry (line 194)
StationCacheAfter(stations, i, b, nb) ==
  IF nb.stage = "settled" /\ ~nb.promise[1].value[1].available
  THEN [stations EXCEPT ![i] = Absent]
  ELSE IF b.stage = "stations" /\ nb.stage = "obs"
       THEN [stations EXCEPT ![i] = nb.station]
       ELSE stations

\* Promise.all over the branches: pending until all have settled, then
\* rejected with the first rejection or resolved with the results in order
PromiseAll(branches) ==
  IF \E i \in DOMAIN branches : branches[i].stage # "settled" THEN Absent
  ELSE IF \E i \in DOMAIN branches : branches[i].promise[1].rejected
       THEN LET i == CHOOSE j \in DOMAIN branches : branches[j].promise[1].rejected
            IN Some(Rejected(branches[i].promise[1].message[1]))
       ELSE Some(Resolved([i \in DOMAIN branches |-> branches[i].promise[1].value[1]]))

\* A response of the snow handler
SnowResponse(status, tag, age, body) ==
  [status |-> status, cacheControl |-> "public, max-age=43200, stale-while-revalidate=86400",
   xSnowCache |-> tag, xSnowCacheAge |-> age, body |-> body]

\* The 503 body
SnowUnavailable(msg) ==
  [error |-> "Snow data unavailable", message |-> msg, lastUpdated |-> Absent]

\* Line 211: snowCache.data && (now - snowCache.ts) < CACHE_TTL
SnowIsFresh(c, t) == c.data # Absent /\ t - c.ts < SNOW_CACHE_TTL

\* Lines 223-231: the data set built from the results, at time t
SnowData(results, t) == [resorts |-> results, lastUpdated |-> t]

\* snowCache after Promise.all settled: replaced when it resolved (line
\* 231, with the now read on line 208), left alone in the catch
SnowCacheAfter(all, c, reqNow, t) ==
  IF all.rejected THEN c ELSE [data |-> Some(SnowData(all.value[1], t)), ts |-> reqNow]

\* Lines 233-246: MISS with the new data; in the catch STALE with the
\* cached data, or 503 when there is none
SnowAnswer(all, c, t) ==
  IF ~all.rejected THEN SnowResponse(200, "MISS", Absent, SnowData(all.value[1], t))
  ELSE IF c.data # Absent THEN SnowResponse(200, "STALE", Absent, c.data[1])
       ELSE SnowResponse(503, "", Absent, SnowUnavailable(all.message[1]))

SnowQuiet == \A w \in SnowReqs : ~(wreq[w] # Absent /\ wreq[w][1].pc = "done")

\* The handler up to its first await (lines 204-221)
SnowArrive(w) ==
  /\ SnowQuiet
  /\ wreq[w] = Absent
  /\ IF SnowIsFresh(snowCache, now)
     THEN wreq' = [wreq EXCEPT ![w] =
            Some([pc |-> "done", now |-> now,
                  branches |-> [i \in DOMAIN Resorts |-> SnowBranch("settled", Absent, Absent)],
                  resp |-> Some(SnowResponse(200, "HIT", Some((now - snowCache.ts) * 60),
                                             snowCache.data[1]))])]
     ELSE wreq' = [wreq EXCEPT ![w] =
            Some([pc |-> "fetching", now |-> now,
                  branches |-> [i \in DOMAIN Resorts |-> StartBranch(stationCache, i)],
                  resp |-> Absent])]
  /\ UNCHANGED <<now, snowCache, stationCache>>

\* One nwsGet of one resort answers; when it is the last one, Promise.all
\* settles and the handler runs to its end (lines 223-247)
SnowSettle(w, i, answer) ==
  /\ SnowQuiet
  /\ wreq[w] # Absent
  /\ wreq[w][1].pc = "fetching"
  /\ wreq[w][1].branches[i].stage # "settled"
  /\ LET req      == wreq[w][1]
         raw      == NwsUpstream(req.branches[i].stage, answer)
         nb       == BranchStep(i, req.branches[i], nwsGet(raw))
         branches == [req.branches EXCEPT ![i] = nb]
         all      == PromiseAll(branches)
     IN /\ stationCache' = StationCacheAfter(stationCache, i, req.branches[i], nb)
        /\ IF all = Absent
           THEN /\ wreq' = [wreq EXCEPT ![w] = Some([req EXCEPT !.branches = branches])]
                /\ UNCHANGED snowCache
           ELSE /\ snowCache' = SnowCacheAfter(all[1], snowCache, req.now, now)
                /\ wreq' = [wreq EXCEPT ![w] =
                     Some([req EXCEPT !.branches = branches, !.pc = "done",
                                      !.resp = Some(SnowAnswer(all[1], snowCache, now))])]
  /\ UNCHANGED now

\* The response has been sent
SnowClose(w) ==
  /\ wreq[w] # Absent
  /\ wreq[w][1].pc = "done"
  /\ wreq' = [wreq EXCEPT ![w] = Absent]
  /\ UNCHANGED <<now, snowCache, stationCache>>

SnowTick ==
  /\ SnowQuiet
  /\ \E t \in SnowTimes : t > now /\ now' = t
  /\ UNCHANGED SnowVars

SnowOther ==
  <<gRaw, gRes, cache, mreq, ureq, imageCache, lastGoodCache, mdtUrlCache, sreq,
    ImgVars, NamesVars, ClientVars>>

SnowInit ==
  /\ now = 0
  /\ gRaw = Absent /\ gRes = Absent
  /\ cache = Absent
  /\ mreq = [r \in MdtReqs |-> MdtIdle]
  /\ ureq = Absent
  /\ imageCache = NoImages /\ lastGoodCache = NoImages /\ mdtUrlCache = NoUrls
  /\ sreq = Absent
  /\ ImgIdle /\ NamesIdle /\ SnowIdle /\ ClientIdle

SnowNext ==
  \/ \E w \in SnowReqs : SnowArrive(w) /\ UNCHANGED SnowOther
  \/ \E w \in SnowReqs, i \in DOMAIN Resorts, answer \in NwsAnswers :
       SnowSettle(w, i, answer) /\ UNCHANGED SnowOther
  \/ \E w \in SnowReqs : SnowClose(w) /\ UNCHANGED SnowOther
  \/ SnowTick /\ UNCHANGED SnowOther

SpecSnow == SnowInit /\ [][SnowNext]_vars

(***************************************************************************)
(* Properties of the snow endpoint                                         *)
(***************************************************************************)
\* Request w answers in this step
SnowAnswers(w) ==
  /\ wreq[w] # Absent /\ wreq[w][1].pc = "fetching"
  /\ wreq'[w] # Absent /\ wreq'[w][1].pc = "done"

\* The refresh of request w ends in this step with every lookup failed
SnowRefreshFailed(w) ==
  /\ SnowAnswers(w)
  /\ \A i \in DOMAIN Resorts : ~wreq'[w][1].branches[i].promise[1].value[1].available

\* C28: when a refresh after the 12 h TTL ends with the NWS lookups failed
\* and a data set is cached, that data set is served with X-Snow-Cache:
\* STALE and stays in the cache; 503 is answered only with no cached data.
C28_StaleOnFailedRefresh ==
  [][\A w \in SnowReqs :
       /\ (SnowRefreshFailed(w) /\ snowCache.data # Absent
             /\ wreq[w][1].now - snowCache.ts >= SNOW_CACHE_TTL) =>
            /\ wreq'[w][1].resp[1].xSnowCache = "STALE"
            /\ wreq'[w][1].resp[1].body = snowCache.data[1]
            /\ snowCache' = snowCache
       /\ (SnowAnswers(w) /\ wreq'[w][1].resp[1].status = 503) =>
            snowCache.data = Absent]_vars

\* Branch i of request w settles in this step
SnowBranchSettles(w, i) ==
  /\ wreq[w] # Absent /\ wreq[w][1].pc = "fetching"
  /\ wreq[w][1].branches[i].stage # "settled"
  /\ wreq'[w] # Absent
  /\ wreq'[w][1].branches[i].stage = "settled"

\* C35: when fetchSnowForResort returns available:false for a resort,
\* stationCache holds no entry for it; when it returns available:true,
\* stationCache holds that resort's station; no other resort's entry
\* changes; a run starts with discovery exactly for the resorts that have
\* no entry.
C35_StationCache ==
  [][\A w \in SnowReqs : \A i \in DOMAIN Resorts :
       /\ SnowBranchSettles(w, i) =>
            LET res == wreq'[w][1].branches[i].promise[1].value[1] IN
            /\ ~res.available => stationCache'[i] = Absent
            /\ res.available =>
                 stationCache'[i] = Some([stationId   |-> res.stationId[1],
                                          stationName |-> res.stationName[1]])
            /\ \A j \in DOMAIN Resorts : j # i => stationCache'[j] = stationCache[j]
       /\ (wreq[w] = Absent /\ wreq'[w] # Absent /\ wreq'[w][1].pc = "fetching") =>
            wreq'[w][1].branches[i].stage =
              (IF stationCache[i] = Absent THEN "points" ELSE "obs")]_vars

\* C36: the timestamp stored in a cache never decreases from one write to
\* the next: the manifest cache's at, the snow cache's ts, and each image
\* cache entry's fetchedAt.
C36_MonotonicTimestamps ==
  [][/\ snowCache'.ts >= snowCache.ts
     /\ (cache # Absent /\ cache' # Absent) => cache'[1].at >= cache[1].at
     /\ \A k \in SnapKeys :
          (imageCache[k] # Absent /\ imageCache'[k] # Absent) =>
            imageCache'[k][1].fetchedAt >= imageCache[k][1].fetchedAt]_vars

\* C37: a manifest request answered X-Cache: STALE carries the bytes of the
\* entry that is in the cache when the response is written, also when
\* another request stored a newer entry while this one's fetch was pending.
C37_StaleServesCurrentEntry ==
  \A r \in MdtReqs :
    (MdtDone(r) /\ mreq[r].resp[1].xcache = "STALE") =>
      cache # Absent /\ mreq[r].resp[1].body = cache[1].buf

(***************************************************************************)
(* Invariants of the caches                                                *)
(***************************************************************************)
\* C38: every key present in imageCache is present in lastGoodCache with
\* the same bytes and content type, and each map holds at most one entry
\* per key.
C38_ImageCacheConsistent ==
  \A k \in SnapKeys :
    /\ Len(imageCache[k]) <= 1 /\ Len(lastGoodCache[k]) <= 1
    /\ imageCache[k] # Absent =>
         /\ lastGoodCache[k] # Absent
         /\ lastGoodCache[k][1].buf = imageCache[k][1].buf
         /\ lastGoodCache[k][1].contentType = imageCache[k][1].contentType

\* C38 witness: an image with its own content type was stored after the
\* first TTL had passed, and the request that stored it has answered
C38_Witness ==
  /\ SnapDone /\ sreq[1].resp[1].xsnapshot = "MISS"
  /\ imageCache[sreq[1].key] # Absent
  /\ imageCache[sreq[1].key][1].contentType = "image/png"
  /\ imageCache[sreq[1].key][1].fetchedAt >= SNAPSHOT_CACHE_TTL

\* C39: the manifest cache entry, when present, is the JSON of a list of at
\* least one camera parsed from a 200 upstream response; a HIT carries
\* such an entry, never an empty list or an error body.
C39_ManifestCacheContent ==
  /\ cache # Absent =>
       /\ MdtValidPayload(cache[1].buf)
       /\ \E up \in FetchXmlOutcomes :
            /\ up.kind = "response" /\ up.status = 200
            /\ cache[1].buf = JsonCameras(parseMarkers(up.body))
  /\ \A r \in MdtReqs :
       (MdtDone(r) /\ mreq[r].resp[1].xcache = "HIT") =>
         /\ cache # Absent /\ mreq[r].resp[1].body = cache[1].buf
         /\ MdtValidPayload(mreq[r].resp[1].body)

\* C39 witness: a HIT is served from an entry that was stored after the
\* start, some time after it was stored
C39_Witness ==
  \E r \in MdtReqs :
    /\ MdtDone(r) /\ mreq[r].resp[1].xcache = "HIT"
    /\ cache[1].at > 0 /\ now > cache[1].at

(***************************************************************************)
(* The Montana client: loadCameras                                         *)
(* Timer delays are in tenths of a second.                                 *)
(***************************************************************************)
\* const MAX = 3
MAX == 3

\* setTimeout(res, 1500 * attempt) and setTimeout(res, 2000 * attempt)
EMPTY_BACKOFF == 15
ERROR_BACKOFF == 20

\* setTimeout(hideLoading, 400) and setTimeout(hideLoading, 600)
HIDE_AFTER_LOAD  == 4
HIDE_AFTER_ERROR == 6

\* What fetch('/api/mdt') and r.text() give the client: a rejection, a text
\* that is not JSON, or a JSON value (null, an object with or without
\* error, a list of cameras)
LoadOutcomes ==
  { [kind |-> "reject", json |-> Absent],
    [kind |-> "text", json |-> Absent],
    [kind |-> "text", json |-> Some([type |-> "null", items |-> <<>>, error |-> ""])],
    [kind |-> "text", json |-> Some(JsonError("MDT XML returned HTTP status"))],
    [kind |-> "text", json |-> Some([type |-> "object", items |-> <<>>, error |-> ""])],
    [kind |-> "text", json |-> Some(JsonCameras(<<>>))],
    [kind |-> "text", json |-> Some(JsonCameras(parseMarkers(<<MarkerHelena>>)))],
    [kind |-> "text", json |-> Some(JsonCameras(parseMarkers(<<MarkerHelena, MarkerNoLabel>>)))] }

\* Lines 140-148: the camera list, or the error thrown
LoadTry(out) ==
  IF out.kind = "reject" THEN [ok |-> FALSE, cameras |-> <<>>, msg |-> "Failed to fetch"]
  ELSE IF out.json = Absent
       THEN [ok |-> FALSE, cameras |-> <<>>, msg |-> "MDT API returned non-JSON"]
  ELSE IF out.json[1].type = "null"
       THEN [ok |-> FALSE, cameras |-> <<>>, msg |-> "Cannot read properties of null"]
  ELSE IF out.json[1].error # ""
       THEN [ok |-> FALSE, cameras |-> <<>>, msg |-> out.json[1].error]
  ELSE IF out.json[1].type # "array"
       THEN [ok |-> FALSE, cameras |-> <<>>, msg |-> "Unexpected MDT API response shape"]
  ELSE [ok |-> TRUE, cameras |-> out.json[1].items, msg |-> ""]

\* Lines 158-161: each camera with its image URL
WithImgUrl(cameras) ==
  [i \in DOMAIN cameras |->
     [id |-> cameras[i].id, lat |-> cameras[i].lat, lng |-> cameras[i].lng,
      location |-> cameras[i].location, imgUrl |-> "/api/mdt-image?id=" \o cameras[i].id]]

RetryAfterEmptyInclusive(cameras, attempt) == Len(cameras) = 0 /\ attempt <= MAX

\* Line 150: !cameras.length && attempt < MAX
RetryAfterEmpty(cameras, attempt) == Len(cameras) = 0 /\ attempt < MAX

RetryAfterErrorInclusive(attempt) == attempt <= MAX

\* Line 176: attempt < MAX
RetryAfterError(attempt) == attempt < MAX

\* Lines 130-141: loadCameras(attempt) up to its first await
LoadCall(l, attempt) ==
  [l EXCEPT !.pc = "fetching", !.attempt = attempt, !.fetches = l.fetches + 1,
            !.status = IF attempt = 1 THEN <<"FETCHING CAMERA MANIFEST...">>
                       ELSE <<"RETRYING... (", attempt, "/", MAX, ")">>,
            !.pct = 10 * attempt]

\* init() reaches await loadCameras()
LoadStart ==
  /\ load.pc = "init"
  /\ load' = LoadCall(load, 1)

\* Lines 141-184: the fetch and r.text() have settled
LoadSettle(out) ==
  /\ load.pc = "fetching"
  /\ LET t == LoadTry(out) IN
     load' =
       IF t.ok /\ RetryAfterEmpty(t.cameras, load.attempt)
       THEN [load EXCEPT !.pc = "emptyWait", !.wait = EMPTY_BACKOFF * load.attempt]
       ELSE IF t.ok
       THEN [load EXCEPT !.pc = "loaded", !.cameras = WithImgUrl(t.cameras),
                         !.status = <<"CAMERA NETWORK ONLINE">>, !.pct = 100,
                         !.wait = HIDE_AFTER_LOAD]
       ELSE IF RetryAfterError(load.attempt)
       THEN [load EXCEPT !.pc = "errorWait", !.log = Append(load.log, load.attempt),
                         !.status = <<"RETRYING... (", load.attempt + 1, "/", MAX, ")">>,
                         !.pct = 20, !.wait = ERROR_BACKOFF * load.attempt]
       ELSE [load EXCEPT !.pc = "fallback", !.log = Append(load.log, load.attempt),
                         !.status = <<"ERROR: FAILED TO CONNECT TO MDT">>, !.pct = 100,
                         !.err = Some(t.msg), !.wait = HIDE_AFTER_ERROR]

\* A tenth of a second passes while a timer is armed
LoadTick ==
  /\ load.wait > 0
  /\ load' = [load EXCEPT !.wait = load.wait - 1]

\* A timer fires: the backoff ends with the next loadCameras call, or
\* hideLoading removes the loading screen
LoadTimer ==
  /\ load.wait = 0
  /\ \/ /\ load.pc \in {"emptyWait", "errorWait"}
        /\ load' = LoadCall(load, load.attempt + 1)
     \/ /\ load.pc \in {"loaded", "fallback"} /\ load.loading = "shown"
        /\ load' = [load EXCEPT !.loading = "hidden"]

LoadOther ==
  <<now, gRaw, gRes, cache, mreq, ureq, imageCache, lastGoodCache, mdtUrlCache, sreq,
    ImgVars, NamesVars, SnowVars, mv, cliCache, kreq>>

LoadInit ==
  /\ now = 0
  /\ gRaw = Absent /\ gRes = Absent
  /\ cache = Absent
  /\ mreq = [r \in MdtReqs |-> MdtIdle]
  /\ ureq = Absent
  /\ imageCache = NoImages /\ lastGoodCache = NoImages /\ mdtUrlCache = NoUrls
  /\ sreq = Absent
  /\ ImgIdle /\ NamesIdle /\ SnowIdle /\ ClientIdle

LoadNext ==
  \/ LoadStart /\ UNCHANGED LoadOther
  \/ \E out \in LoadOutcomes : LoadSettle(out) /\ UNCHANGED LoadOther
  \/ LoadTick /\ UNCHANGED LoadOther
  \/ LoadTimer /\ UNCHANGED LoadOther

\* The browser settles every fetch (with a response or a network error)
\* and fires every timer, and init() runs when the page has loaded.
SpecLoad == LoadInit /\ [][LoadNext]_vars /\ WF_vars(LoadNext)

LoadEnded == load.pc \in {"loaded", "fallback"}

\* C31: loadCameras issues at most MAX manifest fetches, whatever the mix of
\* empty results and errors, and ends in the loaded state or in the error
\* fallback, after which it issues no further fetch.
C31_BoundedRetry ==
  /\ [](load.fetches <= MAX)
  /\ [][LoadEnded => (load'.pc = load.pc /\ load'.fetches = load.fetches)]_vars
  /\ <>LoadEnded

\* C31 witness: the first attempt failed, the second returned an empty
\* list, and the third fetch loaded cameras
C31_Witness ==
  /\ load.pc = "loaded" /\ load.fetches = MAX /\ load.log = <<1>>
  /\ Len(load.cameras) = 2

(***************************************************************************)
(* The Utah client: map moves and the programmaticMove flag                *)
(* A map move ends with Leaflet firing moveend, preceded by zoomend when   *)
(* the zoom level changed; onMapChange is bound to both.  The events of a  *)
(* move are delivered after the handler that started it has returned.      *)
(***************************************************************************)
\* The most events that wait for delivery
MaxEvents == 4

\* The events with which one move ends, for the one who started it
MoveEvents(origin, zoomChanged) ==
  IF zoomChanged
  THEN <<[type |-> "zoomend", origin |-> origin], [type |-> "moveend", origin |-> origin]>>
  ELSE <<[type |-> "moveend", origin |-> origin]>>

\* fitToGrid, called by renderGrid when state.useDefault (fitAfterFilter
\* is never set): with cameras to show, the flag is set and fitBounds moves
\* the map
fitToGrid(m, zoomChanged) ==
  IF m.cameras /\ m.useDefault
  THEN [m EXCEPT !.programmaticMove = TRUE,
                 !.events = m.events \o MoveEvents("program", zoomChanged)]
  ELSE m

\* applyFilters: the default view or the viewport filter, then renderGrid
applyFilters(m, zoomChanged) == fitToGrid(m, zoomChanged)

\* loadCameras has stored the cameras and calls applyFilters
MoveCamerasLoaded(z) ==
  /\ ~mv.cameras
  /\ Len(mv.events) + 2 <= MaxEvents
  /\ mv' = applyFilters([mv EXCEPT !.cameras = TRUE], z)

\* The user drags or zooms the map
MoveUser(z) ==
  /\ Len(mv.events) + 2 <= MaxEvents
  /\ mv' = [mv EXCEPT !.events = mv.events \o MoveEvents("user", z)]

\* resetFilters (Escape): setView to HOME, then applyFilters
resetFilters(z1, z2) ==
  /\ Len(mv.events) + 4 <= MaxEvents
  /\ mv' = applyFilters([mv EXCEPT !.useDefault = TRUE, !.programmaticMove = TRUE,
                                   !.events = mv.events \o MoveEvents("program", z1)], z2)

\* A region button or gotoOnMap: setView without the flag
MoveSetView(z) ==
  /\ Len(mv.events) + 2 <= MaxEvents
  /\ mv' = [mv EXCEPT !.events = mv.events \o MoveEvents("program", z)]

\* onMapChange, for the next event delivered
onMapChange ==
  /\ mv.events # <<>>
  /\ LET e    == Head(mv.events)
         rest == [mv EXCEPT !.events = Tail(mv.events)] IN
     mv' =
       IF mv.programmaticMove
       THEN [rest EXCEPT !.programmaticMove = FALSE,
                         !.handled = Some([origin |-> e.origin, filtered |-> FALSE])]
       ELSE IF mv.cameras
       THEN [applyFilters([rest EXCEPT !.useDefault = FALSE], FALSE)
               EXCEPT !.handled = Some([origin |-> e.origin, filtered |-> TRUE])]
       ELSE [rest EXCEPT !.handled = Some([origin |-> e.origin, filtered |-> FALSE])]

MoveOther ==
  <<now, gRaw, gRes, cache, mreq, ureq, imageCache, lastGoodCache, mdtUrlCache, sreq,
    ImgVars, NamesVars, SnowVars, load, cliCache, kreq>>

MoveInit == LoadInit

MoveNext ==
  \/ \E z \in BOOLEAN : MoveCamerasLoaded(z) /\ UNCHANGED MoveOther
  \/ \E z \in BOOLEAN : MoveUser(z) /\ UNCHANGED MoveOther
  \/ \E z1 \in BOOLEAN, z2 \in BOOLEAN : resetFilters(z1, z2) /\ UNCHANGED MoveOther
  \/ \E z \in BOOLEAN : MoveSetView(z) /\ UNCHANGED MoveOther
  \/ onMapChange /\ UNCHANGED MoveOther

SpecMove == MoveInit /\ [][MoveNext]_vars

\* C32: an event caused by the application's own setView or fitBounds never
\* runs applyFilters (and so never clears useDefault); only events of the
\* user's moves reach the filter logic.
C32_ProgrammaticMoveSuppressed ==
  (mv.handled # Absent /\ mv.handled[1].origin = "program") => ~mv.handled[1].filtered

(***************************************************************************)
(* cli/mts-cli.js : serveMdtCameras, the local /api/mdt                    *)
(***************************************************************************)
\* MDT_CACHE_TTL = 10 * 60 * 1000, in minutes
MDT_CACHE_TTL == 10

RECURSIVE parseRwisXml(_)
parseRwisXml(xml) ==
  IF xml = <<>> THEN <<>>
  ELSE IF KeepMarker(Head(xml))
       THEN <<Camera(Head(xml))>> \o parseRwisXml(Tail(xml))
       ELSE parseRwisXml(Tail(xml))

\* Line 380: !_mdtCamerasCache || (now - _mdtCamerasFetched) > MDT_CACHE_TTL
CliIsExpired(c, t) == ~(c.json # Absent /\ t - c.fetched <= MDT_CACHE_TTL)

CliResponse(status, cc, body) == [status |-> status, cacheControl |-> cc, body |-> body]

\* Lines 395-400: the cached manifest
CliOk(c) == CliResponse(200, "max-age=300", c.json[1])

\* Lines 383-385 when fetchUrl resolved, with any status: the cache after it
CliCacheAfter(c, up, reqNow) ==
  IF up.kind = "error" THEN c
  ELSE [json |-> Some(JsonCameras(parseRwisXml(up.body))), fetched |-> reqNow]

\* Lines 387-400: 502 from the catch when nothing is cached, otherwise the
\* cached manifest
CliAnswer(c, up) ==
  IF up.kind = "error" /\ c.json = Absent
  THEN CliResponse(502, "", JsonError("ECONNRESET"))
  ELSE CliOk(c)

CliQuiet == \A k \in CliReqs : ~(kreq[k] # Absent /\ kreq[k][1].pc = "done")

\* serveMdtCameras up to its await (lines 378-382), or to its end when the
\* cache is not expired
CliArrive(k) ==
  /\ CliQuiet
  /\ kreq[k] = Absent
  /\ kreq' = [kreq EXCEPT ![k] =
       IF CliIsExpired(cliCache, now)
       THEN Some([pc |-> "fetching", now |-> now, up |-> Absent, resp |-> Absent])
       ELSE Some([pc |-> "done", now |-> now, up |-> Absent, resp |-> Some(CliOk(cliCache))])]
  /\ UNCHANGED <<now, cliCache>>

\* fetchUrl has settled: lines 383-400
CliSettle(k, up) ==
  /\ CliQuiet
  /\ kreq[k] # Absent
  /\ kreq[k][1].pc = "fetching"
  /\ LET after == CliCacheAfter(cliCache, up, kreq[k][1].now) IN
     /\ cliCache' = after
     /\ kreq' = [kreq EXCEPT ![k] =
          Some([kreq[k][1] EXCEPT !.pc = "done", !.up = Some(up),
                                  !.resp = Some(CliAnswer(after, up))])]
  /\ UNCHANGED now

\* res.end(): the response has been delivered
CliClose(k) ==
  /\ kreq[k] # Absent
  /\ kreq[k][1].pc = "done"
  /\ kreq' = [kreq EXCEPT ![k] = Absent]
  /\ UNCHANGED <<now, cliCache>>

CliTick ==
  /\ CliQuiet
  /\ now + TickStep <= MaxTime
  /\ now' = now + TickStep
  /\ UNCHANGED CliVars

CliOther ==
  <<gRaw, gRes, cache, mreq, ureq, imageCache, lastGoodCache, mdtUrlCache, sreq,
    ImgVars, NamesVars, SnowVars, load, mv>>

CliInit == LoadInit

CliNext ==
  \/ \E k \in CliReqs : CliArrive(k) /\ UNCHANGED CliOther
  \/ \E k \in CliReqs, up \in FetchXmlOutcomes : CliSettle(k, up) /\ UNCHANGED CliOther
  \/ \E k \in CliReqs : CliClose(k) /\ UNCHANGED CliOther
  \/ CliTick /\ UNCHANGED CliOther

SpecCli == CliInit /\ [][CliNext]_vars

\* Request k answers in this step, after its fetch
CliSettles(k) ==
  /\ kreq[k] # Absent /\ kreq[k][1].pc = "fetching"
  /\ kreq'[k] # Absent /\ kreq'[k][1].pc = "done"

\* C33: the CLI's cached manifest is replaced only by the result of a
\* fetch that answered 200 with at least one camera; after a failed, non-200
\* or unparseable answer the cached manifest is unchanged and, when there
\* is one, it is what the response carries.
C33_CliCacheWriteDiscipline ==
  [][\A k \in CliReqs : CliSettles(k) =>
       LET up == kreq'[k][1].up[1] IN
       IF MdtFetchFailed(up)
       THEN /\ cliCache' = cliCache
            /\ cliCache.json # Absent => kreq'[k][1].resp[1].body = cliCache.json[1]
       ELSE cliCache'.json = Some(JsonCameras(parseRwisXml(up.body)))]_vars

(***************************************************************************)
(* The serverless /api/mdt and the CLI's /api/mdt side by side: request r1 *)
(* of the one and k1 of the other arrive at the same times and their       *)
(* fetches get the same upstream outcome.                                  *)
(***************************************************************************)
PairIdle == mreq["r1"].pc = "idle" /\ kreq["k1"] = Absent
PairDone == mreq["r1"].pc = "done" /\ kreq["k1"] # Absent /\ kreq["k1"][1].pc = "done"

PairOther ==
  <<gRaw, gRes, ureq, imageCache, lastGoodCache, mdtUrlCache, sreq,
    ImgVars, NamesVars, SnowVars, load, mv>>

\* The same GET reaches both handlers
PairArrive ==
  /\ PairIdle
  /\ MdtArrive("r1", "GET")
  /\ CliArrive("k1")

\* The upstream outcome reaches each handler that is waiting for it
PairSettle(up) ==
  /\ ~PairDone
  /\ ~(mreq["r1"].pc # "fetching" /\ ~(kreq["k1"] # Absent /\ kreq["k1"][1].pc = "fetching"))
  /\ IF mreq["r1"].pc = "fetching"
     THEN MdtSettle("r1", up)
     ELSE UNCHANGED <<cache, mreq>>
  /\ IF kreq["k1"] # Absent /\ kreq["k1"][1].pc = "fetching"
     THEN CliSettle("k1", up)
     ELSE UNCHANGED <<cliCache, kreq>>
  /\ UNCHANGED now

\* Both responses have been delivered
PairClose ==
  /\ PairDone
  /\ MdtClose("r1")
  /\ CliClose("k1")

PairTick ==
  /\ PairIdle
  /\ now + TickStep <= MaxTime
  /\ now' = now + TickStep
  /\ UNCHANGED <<cache, mreq, cliCache, kreq>>

PairNext ==
  \/ PairArrive /\ UNCHANGED PairOther
  \/ \E up \in FetchXmlOutcomes : PairSettle(up) /\ UNCHANGED PairOther
  \/ PairClose /\ UNCHANGED PairOther
  \/ PairTick /\ UNCHANGED PairOther

SpecPair == LoadInit /\ [][PairNext]_vars

\* C34: fed the same request times and upstream outcomes, the CLI's
\* /api/mdt and the serverless /api/mdt answer every request with the same
\* status and the same body.
C34_CliEquivalent ==
  PairDone =>
    /\ kreq["k1"][1].resp[1].status = mreq["r1"].resp[1].status
    /\ kreq["k1"][1].resp[1].body = mreq["r1"].resp[1].body

====
